---- MODULE Spec2Model ----
(***************************************************************************)
(* roleTerminal client terminal (private/scripts/feed.js): the command     *)
(* queue and its timer-driven dispatcher, the multi-step command session   *)
(* (commandHandler.commandHelper), the Enter handler and the socket        *)
(* signals commandSuccess / commandFail / commandStep.                     *)
(*                                                                         *)
(* Text is a sequence of one-character strings, so that trimming,          *)
(* splitting, joining and lower-casing are computed and not assumed.       *)
(* Time is kept as the delay left on every pending setTimeout.             *)
(***************************************************************************)
EXTENDS Integers, Sequences, FiniteSets, TLC

(* ------------------------------ bounds --------------------------------- *)
\* longest command history kept in storage
MaxHistory == 2
\* invocations enqueued over one run
MaxEnqueued == 3
\* highest step cursor a commandSuccess signal is let to reach
MaxStep == 1
\* the input field takes no further typed character at this length
MaxInput == 5
\* playMorse calls over one run
MaxPlays == 3
\* restarts pending at one time
MaxErrors == 1
\* most items handed to match at once
MaxItems == 2

(* ------------------------- program constants --------------------------- *)
commandTime == 1000
\* delay of the restart after a window error, in milliseconds
restartTime == 3000
\* the station signal may lie this far from signalDefault
signalThreshold == 50
signalDefault == 100
\* 0.2, in hundredths
changePercentage == 20
signalMaxChange == 10

\* time passes in steps of half the delay between two commands
TimeQuantum == commandTime \div 2

(* ------------------------------- text ---------------------------------- *)
S_empty == << >>
S_ls == <<"l", "s">>
S_lsArg == <<" ", "L", "s", " ", " ", "a">>
S_Ls == <<"L", "s">>
S_a == <<"a">>
S_lantern == <<"l", "a", "n", "t", "e", "r", "n">>
S_exit == <<"e", "x", "i", "t">>
S_abortArg == <<"a", "b", "o", "r", "t", " ", "a">>
S_abort == <<"a", "b", "o", "r", "t">>
S_reboot == <<"r", "e", "b", "o", "o", "t">>
S_dashZz == <<"-", "z", "z">>
S_msg == <<"m", "s", "g">>
S_clear == <<"c", "l", "e", "a", "r">>
S_prompt == <<"$", " ">>
S_help == <<"h", "e", "l", "p">>
S_whisper == <<"w", "h", "i", "s", "p", "e", "r">>
S_follow == <<"f", "o", "l", "l", "o", "w">>
S_followpublic == <<"f", "o", "l", "l", "o", "w", "p", "u", "b", "l", "i", "c">>
S_l == <<"l">>
S_L == <<"L">>
S_la == <<"l", "a">>
S_r == <<"r">>
S_wh == <<"w", "h">>
S_fo == <<"f", "o">>
S_dashFo == <<"-", "f", "o">>
S_dashWh == <<"-", "w", "h">>
S_dash == <<"-">>
S_foArg == <<"f", "o", " ", "a">>
S_ab == <<"a", "b">>
S_b == <<"b">>
S_bb == <<"b", "b">>
S_c == <<"c">>
S_d == <<"d">>
S_x == <<"x">>
S_lsSp == S_ls \o <<" ">>
S_lsA == S_ls \o <<" ", "a">>
S_lsX == S_ls \o <<" ", "x">>
S_lsZ == S_ls \o <<" ", "z">>
S_lsAB == S_ls \o <<" ", "a", " ", "b">>
S_lsAZ == S_ls \o <<" ", "a", " ", "z">>
S_lsABC == S_ls \o <<" ", "a", " ", "b", " ", "c">>
S_lsXZ == S_ls \o <<" ", "x", " ", "z">>
S_lsDZ == S_ls \o <<" ", "d", " ", "z">>

\* Lines the user may have in the input field when submitting
Lines == {S_empty, S_lsArg, S_lantern, S_exit, S_abortArg, S_reboot, S_dashZz}

\* String.prototype.toLowerCase, one character
LowerChar(c) == IF c = "L" THEN "l" ELSE c

toLowerCase(s) == [i \in 1..Len(s) |-> LowerChar(s[i])]

RECURSIVE StripLeading(_)
StripLeading(s) ==
  IF s # << >> /\ Head(s) = " " THEN StripLeading(Tail(s)) ELSE s

RECURSIVE StripTrailing(_)
StripTrailing(s) ==
  IF s # << >> /\ s[Len(s)] = " "
    THEN StripTrailing(SubSeq(s, 1, Len(s) - 1))
    ELSE s

RECURSIVE CollapseSpaces(_)
CollapseSpaces(s) ==
  IF Len(s) < 2 THEN s
  ELSE IF s[1] = " " /\ s[2] = " " THEN CollapseSpaces(Tail(s))
  ELSE <<Head(s)>> \o CollapseSpaces(Tail(s))

\* textTools.trimSpace: no leading or trailing whitespace, runs collapsed
trimSpace(s) == CollapseSpaces(StripTrailing(StripLeading(s)))

RECURSIVE SplitFrom(_, _)
SplitFrom(s, cur) ==
  IF s = << >> THEN <<cur>>
  ELSE IF Head(s) = " " THEN <<cur>> \o SplitFrom(Tail(s), << >>)
  ELSE SplitFrom(Tail(s), Append(cur, Head(s)))

\* String.prototype.split(' '): the empty string gives one empty token
split(s) == SplitFrom(s, << >>)

RECURSIVE join(_)
\* Array.prototype.join(' ')
join(tokens) ==
  IF tokens = << >> THEN << >>
  ELSE IF Len(tokens) = 1 THEN tokens[1]
  ELSE tokens[1] \o <<" ">> \o join(Tail(tokens))

\* Array.prototype.slice(1)
slice1(tokens) == IF tokens = << >> THEN << >> ELSE Tail(tokens)

(* --------------------------- command registry -------------------------- *)
\* commandHelper.command === null
NoCommand == << >>
\* a null commandMsg
NoMsg == << >>
\* commandHandler.getCommand('msg').func, the value queued in chat mode
MsgFunc == <<"msg.func">>

\* An object that maps option names to options: Object.keys gives the names
\* in the order of their insertion, at gives the option of a name
NoKeys == [keys |-> << >>, at |-> << >>]

\* an option that has no next level
Leaf == [description |-> << >>]

\* The option tree of ls: a leads on to b and bb, b leads on to c and d, x has
\* an empty next level, and ab, bb, c and d, which lead nowhere
lsOptions ==
  [keys |-> <<S_a, S_ab, S_x, S_d>>,
   at |-> (S_a :> [next |->
                    [keys |-> <<S_b, S_bb>>,
                     at |-> (S_b :> [next |-> [keys |-> <<S_c, S_d>>,
                                               at |-> (S_c :> Leaf) @@ (S_d :> Leaf)]])
                            @@ (S_bb :> Leaf)]])
          @@ (S_ab :> Leaf)
          @@ (S_x :> [next |-> NoKeys])
          @@ (S_d :> Leaf)]

\* The registered commands.  accessLevel may be absent (isNaN is then true);
\* hideInput names the steps of a multi-step command that take hidden input.
Registry ==
  (S_ls :> [commandName |-> S_ls, isMultiStep |-> FALSE, fallbackStep |-> 0,
            clearBeforeUse |-> FALSE, clearAfterUse |-> FALSE, visibility |-> 1,
            options |-> lsOptions])
  @@ (S_lantern :> [commandName |-> S_lantern, isMultiStep |-> TRUE, fallbackStep |-> 1,
            clearBeforeUse |-> TRUE, clearAfterUse |-> TRUE, accessLevel |-> 1,
            hideInput |-> {1}, visibility |-> 1])
  @@ (S_reboot :> [commandName |-> S_reboot, isMultiStep |-> FALSE, fallbackStep |-> 0,
            clearBeforeUse |-> FALSE, clearAfterUse |-> FALSE, accessLevel |-> 2,
            visibility |-> 0, options |-> NoKeys])
  @@ (S_msg :> [commandName |-> S_msg, isMultiStep |-> FALSE, fallbackStep |-> 0,
            clearBeforeUse |-> FALSE, clearAfterUse |-> FALSE, accessLevel |-> 1,
            visibility |-> 1])
  @@ (S_whisper :> [commandName |-> S_whisper, isMultiStep |-> FALSE, fallbackStep |-> 0,
            clearBeforeUse |-> FALSE, clearAfterUse |-> FALSE, accessLevel |-> 1,
            visibility |-> 1, autocomplete |-> [type |-> "users"]])
  @@ (S_follow :> [commandName |-> S_follow, isMultiStep |-> FALSE, fallbackStep |-> 0,
            clearBeforeUse |-> FALSE, clearAfterUse |-> FALSE, visibility |-> 0])
  @@ (S_followpublic :> [commandName |-> S_followpublic, isMultiStep |-> FALSE,
            fallbackStep |-> 0, clearBeforeUse |-> FALSE, clearAfterUse |-> FALSE,
            visibility |-> 0])

\* commandHandler.getCommand found a command
hasCommand(name) == name \in DOMAIN Registry

\* commandHandler.getCommandChars()
commandChars == {"-", "/"}

\* the names of the registered commands, in the order of their registration
AllCommands == <<S_ls, S_lantern, S_reboot, S_msg, S_whisper, S_follow, S_followpublic>>

Reverse(q) == [i \in 1..Len(q) |-> q[Len(q) + 1 - i]]

\* commandHandler.getCommands({ aliases: true, filtered: true }): the order of
\* the names is the command handler's own
getCommands == {AllCommands, Reverse(AllCommands)}

\* commandHandler.getCommandVisibility(command)
getCommandVisibility(command) == Registry[command].visibility

\* storage.getAliases()
Aliases == (S_ls :> <<S_a>>)

(* ------------------------------- state --------------------------------- *)
VARIABLES
  commandQueue,            \* feed.js commandQueue: invocations waiting to be dispatched
  commmandUsed,            \* feed.js commmandUsed: the dispatcher is draining
  timers,                  \* pending setTimeout callbacks, in creation order
  commandHelper,           \* commandHandler.commandHelper: the multi-step session
  commandHistory,          \* storage command history
  previousCommandPointer,  \* feed.js previousCommandPointer
  keyPressed,              \* feed.js keyPressed: blocks key repeat
  inputText,               \* text of the command input field
  ctrl,                    \* feed.js triggerKeysPressed.ctrl: a Ctrl or Command key is held
  user,                    \* storage.getUser()
  mode,                    \* storage.getMode()
  accessLevel,             \* storage.getAccessLevel()
  disableCommands,         \* storage.getDisableCommands()
  isAndroid,               \* feed.js isAndroid(): the user agent is an Android browser
  soundQueue,              \* feed.js soundQueue: the timers of the gain changes to come
  soundTimeout,            \* feed.js soundTimeout: the cursor of the morse schedule
  gain,                    \* gainNode.gain.value
  plays,                   \* history: number of playMorse calls
  sinceDispatch,           \* history: time since the last dispatch, saturating at commandTime
  enqueued,                \* history: number of invocations passed to queueCommand
  dispatched,              \* history: number of invocations handed over by the dispatcher
  lastTicket,              \* history: ticket of the invocation handed over last
  event,                   \* history: the event handled by the last step
  calls,                   \* history: the collaborator calls made by the last step, in order
  keyHeld,                 \* history: a key went down and no key has come up since
  signalValue              \* server: station.signalValue of the station in the database

vars == <<commandQueue, commmandUsed, timers, commandHelper, commandHistory,
          previousCommandPointer, keyPressed, inputText, ctrl, user, mode,
          accessLevel, disableCommands, isAndroid, soundQueue, soundTimeout, gain, plays,
          sinceDispatch, enqueued, dispatched, lastTicket, event, calls, keyHeld,
          signalValue>>

\* what storage and the user agent report
storageVars == <<user, mode, accessLevel, disableCommands, isAndroid>>
soundVars == <<soundQueue, soundTimeout, gain, plays>>
queueVars == <<commandQueue, commmandUsed, timers, sinceDispatch, enqueued, dispatched,
               lastTicket>>

NoUser == << >>
S_user == <<"u">>

\* the session record when no command is active
IdleHelper ==
  [command |-> NoCommand, onStep |-> 0, fallbackStep |-> 0,
   keysBlocked |-> FALSE, hideInput |-> FALSE]

Call(fn, cmd, step, args, flag) ==
  [fn |-> fn, cmd |-> cmd, step |-> step, args |-> args, flag |-> flag]

Event(type, line, noStepCall, freezeStep) ==
  [type |-> type, line |-> line, noStepCall |-> noStepCall, freezeStep |-> freezeStep]

PlainEvent(type) == Event(type, << >>, FALSE, FALSE)

Min(a, b) == IF a < b THEN a ELSE b

(* ---------------- commandHandler, the missing collaborator ------------- *)
\* the echo is hidden at the steps the command names
hidesInput(cmd, step) == step \in Registry[cmd].hideInput

\* commandHandler.triggerCommand: a multi-step command starts a session at
\* step 0; the command may leave the input locked until its work is done.
triggerCommand(cmd, h) ==
  IF hasCommand(cmd) /\ Registry[cmd].isMultiStep
    THEN {[command |-> cmd, onStep |-> 0, fallbackStep |-> Registry[cmd].fallbackStep,
           keysBlocked |-> kb, hideInput |-> hidesInput(cmd, 0)] : kb \in BOOLEAN}
    ELSE {h}

\* commandHandler.triggerCommandStep: runs the active command's handler for
\* the current step; the handler may leave the input locked until its work is
\* done.
triggerCommandStep(h) ==
  IF h.command = NoCommand
    THEN {h}
    ELSE {[h EXCEPT !.keysBlocked = kb, !.hideInput = hidesInput(h.command, h.onStep)] :
            kb \in BOOLEAN}

\* commandHandler.resetCommand: the session returns to its initial values
resetCommand(h) == IdleHelper

(* ------------------------------ dispatcher ----------------------------- *)
\* queueCommand; the ticket numbers the invocations in the order of the calls
queueCommand(q, command, data, commandMsg) ==
  Append(q, [command |-> command, data |-> data, commandMsg |-> commandMsg,
             ticket |-> enqueued + 1])

\* consumeCommandQueue taking the newest invocation (pop) instead of the oldest
consumeCommandQueue_pop(q, tm, h, pre) ==
  IF Len(q) > 0
    THEN LET storedCommand == q[Len(q)] IN
         /\ commandQueue' = SubSeq(q, 1, Len(q) - 1)
         /\ commmandUsed' = TRUE
         /\ commandHelper' \in triggerCommand(storedCommand.command, h)
         /\ timers' = Append(tm, [fn |-> "consumeCommandQueue", left |-> commandTime])
         /\ dispatched' = dispatched + 1
         /\ lastTicket' = storedCommand.ticket
         /\ sinceDispatch' = 0
         /\ calls' = pre
              \o (IF storedCommand.commandMsg # NoMsg
                    THEN <<Call("queueMessage", NoCommand, 0, <<storedCommand.commandMsg>>, FALSE)>>
                    ELSE << >>)
              \o <<Call("triggerCommand", storedCommand.command, 0, storedCommand.data, FALSE)>>
    ELSE /\ commandQueue' = q
         /\ commmandUsed' = FALSE
         /\ commandHelper' = h
         /\ calls' = pre
         /\ timers' = tm
         /\ UNCHANGED <<dispatched, lastTicket, sinceDispatch>>

\* consumeCommandQueue that does not schedule the next drain
consumeCommandQueue_noTimer(q, tm, h, pre) ==
  IF Len(q) > 0
    THEN LET storedCommand == Head(q) IN
         /\ commandQueue' = Tail(q)
         /\ commmandUsed' = TRUE
         /\ commandHelper' \in triggerCommand(storedCommand.command, h)
         /\ timers' = tm
         /\ dispatched' = dispatched + 1
         /\ lastTicket' = storedCommand.ticket
         /\ sinceDispatch' = 0
         /\ calls' = pre
              \o (IF storedCommand.commandMsg # NoMsg
                    THEN <<Call("queueMessage", NoCommand, 0, <<storedCommand.commandMsg>>, FALSE)>>
                    ELSE << >>)
              \o <<Call("triggerCommand", storedCommand.command, 0, storedCommand.data, FALSE)>>
    ELSE /\ commandQueue' = q
         /\ commmandUsed' = FALSE
         /\ commandHelper' = h
         /\ calls' = pre
         /\ timers' = tm
         /\ UNCHANGED <<dispatched, lastTicket, sinceDispatch>>

\* consumeCommandQueue that itself marks the command handed over as the active one
consumeCommandQueue_session(q, tm, h, pre) ==
  IF Len(q) > 0
    THEN LET storedCommand == Head(q) IN
         /\ commandQueue' = Tail(q)
         /\ commmandUsed' = TRUE
         /\ commandHelper' \in
              {[x EXCEPT !.command = storedCommand.command] :
                 x \in triggerCommand(storedCommand.command, h)}
         /\ timers' = Append(tm, [fn |-> "consumeCommandQueue", left |-> commandTime])
         /\ dispatched' = dispatched + 1
         /\ lastTicket' = storedCommand.ticket
         /\ sinceDispatch' = 0
         /\ calls' = pre
              \o (IF storedCommand.commandMsg # NoMsg
                    THEN <<Call("queueMessage", NoCommand, 0, <<storedCommand.commandMsg>>, FALSE)>>
                    ELSE << >>)
              \o <<Call("triggerCommand", storedCommand.command, 0, storedCommand.data, FALSE)>>
    ELSE /\ commandQueue' = q
         /\ commmandUsed' = FALSE
         /\ commandHelper' = h
         /\ calls' = pre
         /\ timers' = tm
         /\ UNCHANGED <<dispatched, lastTicket, sinceDispatch>>

\* consumeCommandQueue that leaves the busy flag set when it finds the queue empty
consumeCommandQueue_staysBusy(q, tm, h, pre) ==
  IF Len(q) > 0
    THEN LET storedCommand == Head(q) IN
         /\ commandQueue' = Tail(q)
         /\ commmandUsed' = TRUE
         /\ commandHelper' \in triggerCommand(storedCommand.command, h)
         /\ timers' = Append(tm, [fn |-> "consumeCommandQueue", left |-> commandTime])
         /\ dispatched' = dispatched + 1
         /\ lastTicket' = storedCommand.ticket
         /\ sinceDispatch' = 0
         /\ calls' = pre
              \o (IF storedCommand.commandMsg # NoMsg
                    THEN <<Call("queueMessage", NoCommand, 0, <<storedCommand.commandMsg>>, FALSE)>>
                    ELSE << >>)
              \o <<Call("triggerCommand", storedCommand.command, 0, storedCommand.data, FALSE)>>
    ELSE /\ commandQueue' = q
         /\ commandHelper' = h
         /\ calls' = pre
         /\ timers' = tm
         /\ UNCHANGED <<commmandUsed, dispatched, lastTicket, sinceDispatch>>

\* consumeCommandQueue, entered with queue q, pending timers tm, session h and
\* the calls made so far
consumeCommandQueue(q, tm, h, pre) ==
  IF Len(q) > 0
    THEN LET storedCommand == Head(q) IN
         /\ commandQueue' = Tail(q)
         /\ commmandUsed' = TRUE
         /\ commandHelper' \in triggerCommand(storedCommand.command, h)
         /\ timers' = Append(tm, [fn |-> "consumeCommandQueue", left |-> commandTime])
         /\ dispatched' = dispatched + 1
         /\ lastTicket' = storedCommand.ticket
         /\ sinceDispatch' = 0
         /\ calls' = pre
              \o (IF storedCommand.commandMsg # NoMsg
                    THEN <<Call("queueMessage", NoCommand, 0, <<storedCommand.commandMsg>>, FALSE)>>
                    ELSE << >>)
              \o <<Call("triggerCommand", storedCommand.command, 0, storedCommand.data, FALSE)>>
    ELSE /\ commandQueue' = q
         /\ commmandUsed' = FALSE
         /\ commandHelper' = h
         /\ calls' = pre
         /\ timers' = tm
         /\ UNCHANGED <<dispatched, lastTicket, sinceDispatch>>

\* startCommandQueue without the check of the busy flag
startCommandQueue_unguarded(q, h, pre) == consumeCommandQueue(q, timers, h, pre)

startCommandQueue(q, h, pre) ==
  IF ~commmandUsed
    THEN consumeCommandQueue(q, timers, h, pre)
    ELSE /\ commandQueue' = q
         /\ commandHelper' = h
         /\ calls' = pre
         /\ UNCHANGED <<commmandUsed, timers, dispatched, lastTicket, sinceDispatch>>

combineSequences(commandName, phrases) ==
  IF commandName \in DOMAIN Aliases
    THEN Aliases[commandName] \o slice1(phrases)
    ELSE slice1(phrases)

printUsedCommand(clearAfterUse, text) ==
  IF clearAfterUse THEN NoMsg ELSE S_prompt \o text

(* ------------------------------ Enter key ------------------------------ *)
\* commandAllowed that does not look at the access level
commandAllowed_anyLevel(name) ==
  /\ ~disableCommands
  /\ hasCommand(name)

\* the command may be used: commands are enabled, the name is registered and
\* the user's access level reaches the command's (or the command has none)
commandAllowed(name) ==
  /\ ~disableCommands
  /\ hasCommand(name)
  /\ \/ "accessLevel" \notin DOMAIN Registry[name]
     \/ accessLevel >= Registry[name].accessLevel

\* enterActive that also stores the line in the command history
enterActive_history(text, phrases) ==
  IF phrases[1] = S_exit \/ phrases[1] = S_abort
    THEN /\ commandHelper' = resetCommand(commandHelper)
         /\ calls' = <<Call("abortCommand", commandHelper.command, 0, << >>, FALSE),
                       Call("resetCommand", NoCommand, 0, << >>, TRUE)>>
         /\ UNCHANGED <<queueVars, commandHistory>>
    ELSE /\ commandHelper' \in triggerCommandStep(commandHelper)
         /\ calls' = (IF ~commandHelper.hideInput
                        THEN <<Call("queueMessage", NoCommand, 0, <<text>>, FALSE)>>
                        ELSE << >>)
                     \o <<Call("triggerCommandStep", commandHelper.command,
                               commandHelper.onStep, phrases, FALSE)>>
         /\ commandHistory' = Append(commandHistory, join(phrases))
         /\ UNCHANGED queueVars

\* enterActive that knows the abort token exit only
enterActive_exitOnly(text, phrases) ==
  IF phrases[1] = S_exit
    THEN /\ commandHelper' = resetCommand(commandHelper)
         /\ calls' = <<Call("abortCommand", commandHelper.command, 0, << >>, FALSE),
                       Call("resetCommand", NoCommand, 0, << >>, TRUE)>>
         /\ UNCHANGED <<queueVars, commandHistory>>
    ELSE /\ commandHelper' \in triggerCommandStep(commandHelper)
         /\ calls' = (IF ~commandHelper.hideInput
                        THEN <<Call("queueMessage", NoCommand, 0, <<text>>, FALSE)>>
                        ELSE << >>)
                     \o <<Call("triggerCommandStep", commandHelper.command,
                               commandHelper.onStep, phrases, FALSE)>>
         /\ UNCHANGED <<queueVars, commandHistory>>

\* enterActive that moves the step cursor on before it calls the step handler
enterActive_advance(text, phrases) ==
  IF phrases[1] = S_exit \/ phrases[1] = S_abort
    THEN /\ commandHelper' = resetCommand(commandHelper)
         /\ calls' = <<Call("abortCommand", commandHelper.command, 0, << >>, FALSE),
                       Call("resetCommand", NoCommand, 0, << >>, TRUE)>>
         /\ UNCHANGED <<queueVars, commandHistory>>
    ELSE LET h == [commandHelper EXCEPT !.onStep = @ + 1] IN
         /\ commandHelper' \in triggerCommandStep(h)
         /\ calls' = (IF ~commandHelper.hideInput
                        THEN <<Call("queueMessage", NoCommand, 0, <<text>>, FALSE)>>
                        ELSE << >>)
                     \o <<Call("triggerCommandStep", h.command, h.onStep, phrases, FALSE)>>
         /\ UNCHANGED <<queueVars, commandHistory>>

\* enterKeyHandler, the branch taken while a command is active
enterActive(text, phrases) ==
  IF phrases[1] = S_exit \/ phrases[1] = S_abort
    THEN /\ commandHelper' = resetCommand(commandHelper)
         /\ calls' = <<Call("abortCommand", commandHelper.command, 0, << >>, FALSE),
                       Call("resetCommand", NoCommand, 0, << >>, TRUE)>>
         /\ UNCHANGED <<queueVars, commandHistory>>
    ELSE /\ commandHelper' \in triggerCommandStep(commandHelper)
         /\ calls' = (IF ~commandHelper.hideInput
                        THEN <<Call("queueMessage", NoCommand, 0, <<text>>, FALSE)>>
                        ELSE << >>)
                     \o <<Call("triggerCommandStep", commandHelper.command,
                               commandHelper.onStep, phrases, FALSE)>>
         /\ UNCHANGED <<queueVars, commandHistory>>

\* enterIdle that does not store a line that failed in the command history
enterIdle_dropsFailedLine(text, phrases) ==
  IF Len(phrases[1]) > 0
    THEN LET name == toLowerCase(phrases[1]) IN
      IF commandAllowed(name)
        THEN LET command == Registry[name]
                 pre == IF command.clearBeforeUse
                          THEN <<Call("triggerCommand", S_clear, 0, << >>, FALSE)>>
                          ELSE << >>
                 q == queueCommand(commandQueue, command.commandName,
                                   combineSequences(command.commandName, phrases),
                                   printUsedCommand(command.clearAfterUse, text))
             IN /\ commandHistory' = Append(commandHistory, join(phrases))
                /\ enqueued' = enqueued + 1
                /\ \E h \in triggerCommand(S_clear, commandHelper) :
                     startCommandQueue(q, h, pre)
      ELSE IF user # NoUser /\ mode = "chat"
        THEN IF phrases[1][1] \notin commandChars
               THEN LET q == queueCommand(commandQueue, MsgFunc, phrases, NoMsg)
                    IN /\ enqueued' = enqueued + 1
                       /\ startCommandQueue(q, commandHelper, << >>)
                       /\ UNCHANGED commandHistory
               ELSE /\ calls' = <<Call("queueMessage", NoCommand, 0,
                                       <<phrases[1], <<"commandFail">>>>, FALSE)>>
                    /\ UNCHANGED <<queueVars, commandHelper, commandHistory>>
      ELSE IF user = NoUser
        THEN /\ calls' = <<Call("queueMessage", NoCommand, 0, phrases, FALSE),
                           Call("queueMessage", NoCommand, 0, <<<<"mustRegister">>>>, FALSE)>>
             /\ UNCHANGED <<queueVars, commandHelper, commandHistory>>
        ELSE /\ calls' = <<Call("queueMessage", NoCommand, 0,
                                <<phrases[1], <<"commandFail">>>>, FALSE)>>
             /\ UNCHANGED <<queueVars, commandHelper, commandHistory>>
    ELSE /\ calls' = <<Call("queueMessage", NoCommand, 0,
                            <<printUsedCommand(FALSE, <<" ">>)>>, FALSE)>>
         /\ UNCHANGED <<queueVars, commandHelper, commandHistory>>

\* enterKeyHandler, the branch taken while no command is active
enterIdle(text, phrases) ==
  IF Len(phrases[1]) > 0
    THEN LET name == toLowerCase(phrases[1]) IN
      IF commandAllowed(name)
        THEN LET command == Registry[name]
                 pre == IF command.clearBeforeUse
                          THEN <<Call("triggerCommand", S_clear, 0, << >>, FALSE)>>
                          ELSE << >>
                 q == queueCommand(commandQueue, command.commandName,
                                   combineSequences(command.commandName, phrases),
                                   printUsedCommand(command.clearAfterUse, text))
             IN /\ commandHistory' = Append(commandHistory, join(phrases))
                /\ enqueued' = enqueued + 1
                /\ \E h \in triggerCommand(S_clear, commandHelper) :
                     startCommandQueue(q, h, pre)
      ELSE IF user # NoUser /\ mode = "chat"
        THEN IF phrases[1][1] \notin commandChars
               THEN LET q == queueCommand(commandQueue, MsgFunc, phrases, NoMsg)
                    IN /\ enqueued' = enqueued + 1
                       /\ startCommandQueue(q, commandHelper, << >>)
                       /\ UNCHANGED commandHistory
               ELSE /\ calls' = <<Call("queueMessage", NoCommand, 0,
                                       <<phrases[1], <<"commandFail">>>>, FALSE)>>
                    /\ UNCHANGED <<queueVars, commandHelper, commandHistory>>
      ELSE IF user = NoUser
        THEN /\ calls' = <<Call("queueMessage", NoCommand, 0, phrases, FALSE),
                           Call("queueMessage", NoCommand, 0, <<<<"mustRegister">>>>, FALSE)>>
             /\ UNCHANGED <<queueVars, commandHelper, commandHistory>>
        ELSE /\ commandHistory' = Append(commandHistory, join(phrases))
             /\ calls' = <<Call("queueMessage", NoCommand, 0,
                                <<phrases[1], <<"commandFail">>>>, FALSE)>>
             /\ UNCHANGED <<queueVars, commandHelper>>
    ELSE /\ calls' = <<Call("queueMessage", NoCommand, 0,
                            <<printUsedCommand(FALSE, <<" ">>)>>, FALSE)>>
         /\ UNCHANGED <<queueVars, commandHelper, commandHistory>>

\* enterKeyHandler: runs the input as a command or as a step of the active command
\* enterKeyHandler without the check of keysBlocked
enterKeyHandler_unlocked(text) ==
  LET phrases == split(trimSpace(text)) IN
  /\ keyPressed' = TRUE
  /\ IF commandHelper.command # NoCommand
       THEN enterActive(text, phrases)
       ELSE enterIdle(text, phrases)
  /\ previousCommandPointer' = Len(commandHistory')
  /\ inputText' = << >>
  /\ event' = Event("enter", text, FALSE, FALSE)
  /\ UNCHANGED <<storageVars, soundVars, ctrl>>
  /\ Len(commandHistory') <= MaxHistory
  /\ enqueued' <= MaxEnqueued

\* enterKeyHandler that resets the history pointer only when the keys are not
\* blocked
enterKeyHandler_pointerInside(text) ==
  LET phrases == split(trimSpace(text)) IN
  /\ keyPressed' = TRUE
  /\ IF ~commandHelper.keysBlocked
       THEN /\ IF commandHelper.command # NoCommand
                 THEN enterActive(text, phrases)
                 ELSE enterIdle(text, phrases)
            /\ previousCommandPointer' = Len(commandHistory')
       ELSE /\ calls' = << >>
            /\ UNCHANGED <<queueVars, commandHelper, commandHistory, previousCommandPointer>>
  /\ inputText' = << >>
  /\ event' = Event("enter", text, FALSE, FALSE)
  /\ UNCHANGED <<storageVars, soundVars, ctrl>>
  /\ Len(commandHistory') <= MaxHistory
  /\ enqueued' <= MaxEnqueued

\* text is domManipulator.getInputText(), what the user has typed
enterKeyHandler(text) ==
  LET phrases == split(trimSpace(text)) IN
  /\ keyPressed' = TRUE
  /\ IF ~commandHelper.keysBlocked
       THEN IF commandHelper.command # NoCommand
              THEN enterActive(text, phrases)
              ELSE enterIdle(text, phrases)
       ELSE /\ calls' = << >>
            /\ UNCHANGED <<queueVars, commandHelper, commandHistory>>
  /\ previousCommandPointer' = Len(commandHistory')
  /\ inputText' = << >>
  /\ event' = Event("enter", text, FALSE, FALSE)
  /\ UNCHANGED <<storageVars, soundVars, ctrl>>
  /\ Len(commandHistory') <= MaxHistory
  /\ enqueued' <= MaxEnqueued

\* specialKeyPress, key code 13: Enter, ignored while a key is held down
specialKeyPressEnter(text) ==
  /\ IF ~keyPressed
       THEN enterKeyHandler(text)
       ELSE /\ event' = PlainEvent("keydown")
            /\ calls' = << >>
            /\ UNCHANGED <<queueVars, commandHelper, commandHistory, previousCommandPointer,
                           keyPressed, inputText, storageVars, soundVars, ctrl>>
  /\ keyHeld' = TRUE
  /\ UNCHANGED signalValue

\* the EXEC menu item runs enterKeyHandler directly
clickRunCommand(text) ==
  /\ enterKeyHandler(text)
  /\ UNCHANGED <<keyHeld, signalValue>>

\* specialKeyPress, key codes 17, 91, 93 and 224: Ctrl or Command goes down
specialKeyPressCtrl ==
  /\ ctrl' = (IF ~keyPressed THEN TRUE ELSE ctrl)
  /\ event' = PlainEvent("ctrldown")
  /\ calls' = << >>
  /\ UNCHANGED <<queueVars, commandHelper, commandHistory, previousCommandPointer,
                 keyPressed, inputText, storageVars, soundVars>>
  /\ UNCHANGED <<keyHeld, signalValue>>

\* keyReleased for Ctrl or Command: the key repeat block stays as it is
keyReleasedCtrl ==
  /\ ctrl' = FALSE
  /\ event' = PlainEvent("ctrlup")
  /\ calls' = << >>
  /\ UNCHANGED <<queueVars, commandHelper, commandHistory, previousCommandPointer,
                 keyPressed, inputText, storageVars, soundVars>>
  /\ UNCHANGED <<keyHeld, signalValue>>

(* --------------------------- history navigation ------------------------ *)
\* commandHistory[i] of the source, whose indices start at 0
historyAt(i) == commandHistory[i + 1]

\* specialKeyPressUp that does not look for an active command
specialKeyPressUp_noSessionCheck ==
  /\ IF ~keyPressed
       THEN /\ keyPressed' = TRUE
            /\ IF ctrl
                 THEN /\ calls' = <<Call("scrollText", NoCommand, 0, << >>, TRUE)>>
                      /\ UNCHANGED <<previousCommandPointer, inputText>>
                 ELSE IF /\ ~commandHelper.keysBlocked
                         /\ previousCommandPointer > 0
                   THEN /\ previousCommandPointer' = previousCommandPointer - 1
                        /\ inputText' = historyAt(previousCommandPointer')
                        /\ calls' = << >>
                   ELSE /\ calls' = << >>
                        /\ UNCHANGED <<previousCommandPointer, inputText>>
       ELSE /\ calls' = << >>
            /\ UNCHANGED <<keyPressed, previousCommandPointer, inputText>>
  /\ event' = PlainEvent(IF ~keyPressed THEN "up" ELSE "keydown")
  /\ UNCHANGED <<queueVars, commandHelper, commandHistory, storageVars, soundVars, ctrl>>
  /\ keyHeld' = TRUE
  /\ UNCHANGED signalValue

\* specialKeyPress, key code 38: Up arrow
specialKeyPressUp ==
  /\ IF ~keyPressed
       THEN /\ keyPressed' = TRUE
            /\ IF ctrl
                 THEN /\ calls' = <<Call("scrollText", NoCommand, 0, << >>, TRUE)>>
                      /\ UNCHANGED <<previousCommandPointer, inputText>>
                 ELSE IF /\ ~commandHelper.keysBlocked
                         /\ commandHelper.command = NoCommand
                         /\ previousCommandPointer > 0
                   THEN /\ previousCommandPointer' = previousCommandPointer - 1
                        /\ inputText' = historyAt(previousCommandPointer')
                        /\ calls' = << >>
                   ELSE /\ calls' = << >>
                        /\ UNCHANGED <<previousCommandPointer, inputText>>
       ELSE /\ calls' = << >>
            /\ UNCHANGED <<keyPressed, previousCommandPointer, inputText>>
  /\ event' = PlainEvent(IF ~keyPressed THEN "up" ELSE "keydown")
  /\ UNCHANGED <<queueVars, commandHelper, commandHistory, storageVars, soundVars, ctrl>>
  /\ keyHeld' = TRUE
  /\ UNCHANGED signalValue

\* specialKeyPressDown that clears the input after the newest entry without
\* moving the pointer past it
specialKeyPressDown_noStepPast ==
  /\ IF ~keyPressed
       THEN /\ keyPressed' = TRUE
            /\ IF ctrl
                 THEN /\ calls' = <<Call("scrollText", NoCommand, 0, << >>, FALSE)>>
                      /\ UNCHANGED <<previousCommandPointer, inputText>>
                 ELSE /\ calls' = << >>
                      /\ IF ~commandHelper.keysBlocked /\ commandHelper.command = NoCommand
                           THEN IF previousCommandPointer < Len(commandHistory) - 1
                                  THEN /\ previousCommandPointer' = previousCommandPointer + 1
                                       /\ inputText' = historyAt(previousCommandPointer')
                                ELSE IF previousCommandPointer = Len(commandHistory) - 1
                                  THEN /\ previousCommandPointer' = previousCommandPointer
                                       /\ inputText' = << >>
                                  ELSE /\ inputText' = << >>
                                       /\ UNCHANGED previousCommandPointer
                           ELSE UNCHANGED <<previousCommandPointer, inputText>>
       ELSE /\ calls' = << >>
            /\ UNCHANGED <<keyPressed, previousCommandPointer, inputText>>
  /\ event' = PlainEvent(IF ~keyPressed THEN "down" ELSE "keydown")
  /\ UNCHANGED <<queueVars, commandHelper, commandHistory, storageVars, soundVars, ctrl>>
  /\ keyHeld' = TRUE
  /\ UNCHANGED signalValue

\* specialKeyPress, key code 40: Down arrow
specialKeyPressDown ==
  /\ IF ~keyPressed
       THEN /\ keyPressed' = TRUE
            /\ IF ctrl
                 THEN /\ calls' = <<Call("scrollText", NoCommand, 0, << >>, FALSE)>>
                      /\ UNCHANGED <<previousCommandPointer, inputText>>
                 ELSE /\ calls' = << >>
                      /\ IF ~commandHelper.keysBlocked /\ commandHelper.command = NoCommand
                           THEN IF previousCommandPointer < Len(commandHistory) - 1
                                  THEN /\ previousCommandPointer' = previousCommandPointer + 1
                                       /\ inputText' = historyAt(previousCommandPointer')
                                ELSE IF previousCommandPointer = Len(commandHistory) - 1
                                  THEN /\ previousCommandPointer' = previousCommandPointer + 1
                                       /\ inputText' = << >>
                                  ELSE /\ inputText' = << >>
                                       /\ UNCHANGED previousCommandPointer
                           ELSE UNCHANGED <<previousCommandPointer, inputText>>
       ELSE /\ calls' = << >>
            /\ UNCHANGED <<keyPressed, previousCommandPointer, inputText>>
  /\ event' = PlainEvent(IF ~keyPressed THEN "down" ELSE "keydown")
  /\ UNCHANGED <<queueVars, commandHelper, commandHistory, storageVars, soundVars, ctrl>>
  /\ keyHeld' = TRUE
  /\ UNCHANGED signalValue

(* ----------------------------- autocompletion -------------------------- *)
\* String.prototype.charAt, with the index of the source, which starts at 0:
\* a string of one character, or the empty string past the end
charAt(str, i) == IF i < Len(str) THEN <<str[i + 1]>> ELSE << >>

\* commandHandler.isCommandChar(sign)
isCommandChar(sign) == sign # << >> /\ sign[1] \in commandChars

RECURSIVE joinDash(_)
\* Array.prototype.join(' - ')
joinDash(tokens) ==
  IF tokens = << >> THEN << >>
  ELSE IF Len(tokens) = 1 THEN tokens[1]
  ELSE tokens[1] \o <<" ", "-", " ">> \o joinDash(Tail(tokens))

RECURSIVE expandFrom(_, _, _, _, _)
\* the loop of expandPartialMatch, at index i with the characters expanded so far
expandFrom(matchedCommands, partialMatch, sign, i, expanded) ==
  LET firstCommand == matchedCommands[1]
      commandChar == charAt(firstCommand, i)
      matched == \A j \in 1..Len(matchedCommands) :
                   charAt(matchedCommands[j], i) = commandChar
  IN IF i < Len(firstCommand)
       THEN IF matched
              THEN expandFrom(matchedCommands, partialMatch, sign, i + 1,
                              expanded \o commandChar)
              ELSE IF isCommandChar(sign)
                     THEN sign \o partialMatch \o expanded
                     ELSE partialMatch \o expanded
       ELSE << >>

expandPartialMatch(matchedCommands, partialMatch, sign) ==
  expandFrom(matchedCommands, partialMatch, sign, Len(partialMatch), << >>)

\* the test made for every character of the partial name in autoCompleteCommand
commandMatches(partialCommand, command) ==
  /\ Len(partialCommand) > 0
  /\ \A j \in 0..(Len(partialCommand) - 1) :
       /\ \/ "accessLevel" \notin DOMAIN Registry[command]
          \/ accessLevel >= Registry[command].accessLevel
       /\ accessLevel >= getCommandVisibility(command)
       /\ charAt(partialCommand, j) = charAt(command, j)

\* autoCompleteCommand that lets a command match on its first character alone
autoCompleteCommand_firstChar(phrases, allCommands, input) ==
  LET sign == charAt(phrases[1], 0)
      partialCommand == IF isCommandChar(sign) THEN Tail(phrases[1]) ELSE phrases[1]
      matched == SelectSeq(allCommands,
                           LAMBDA command : commandMatches(charAt(partialCommand, 0), command))
      pre == <<Call("getCommands", NoCommand, 0, allCommands, FALSE)>>
  IN IF /\ Len(phrases) = 1
        /\ Len(phrases[1]) > 0
        /\ (isCommandChar(sign) \/ mode = "cmd" \/ user = NoUser)
       THEN IF Len(matched) = 1
              THEN /\ inputText' = (IF isCommandChar(sign) THEN sign ELSE << >>)
                                     \o matched[1] \o <<" ">>
                   /\ calls' = pre
            ELSE IF Len(matched) > 0
              THEN /\ inputText' = trimSpace(expandPartialMatch(matched, partialCommand, sign))
                   /\ calls' = Append(pre, Call("queueMessage", NoCommand, 0,
                                                <<joinDash(matched)>>, FALSE))
              ELSE /\ calls' = pre
                   /\ inputText' = input
       ELSE /\ calls' = pre
            /\ inputText' = input

\* autoCompleteCommand that appends no space to the only match
autoCompleteCommand_noSpace(phrases, allCommands, input) ==
  LET sign == charAt(phrases[1], 0)
      partialCommand == IF isCommandChar(sign) THEN Tail(phrases[1]) ELSE phrases[1]
      matched == SelectSeq(allCommands, LAMBDA command : commandMatches(partialCommand, command))
      pre == <<Call("getCommands", NoCommand, 0, allCommands, FALSE)>>
  IN IF /\ Len(phrases) = 1
        /\ Len(phrases[1]) > 0
        /\ (isCommandChar(sign) \/ mode = "cmd" \/ user = NoUser)
       THEN IF Len(matched) = 1
              THEN /\ inputText' = (IF isCommandChar(sign) THEN sign ELSE << >>)
                                     \o matched[1]
                   /\ calls' = pre
            ELSE IF Len(matched) > 0
              THEN /\ inputText' = trimSpace(expandPartialMatch(matched, partialCommand, sign))
                   /\ calls' = Append(pre, Call("queueMessage", NoCommand, 0,
                                                <<joinDash(matched)>>, FALSE))
              ELSE /\ calls' = pre
                   /\ inputText' = input
       ELSE /\ calls' = pre
            /\ inputText' = input

\* autoCompleteCommand(phrases), with the names that getCommands returned and
\* the text that the input field holds
autoCompleteCommand(phrases, allCommands, input) ==
  LET sign == charAt(phrases[1], 0)
      partialCommand == IF isCommandChar(sign) THEN Tail(phrases[1]) ELSE phrases[1]
      matched == SelectSeq(allCommands, LAMBDA command : commandMatches(partialCommand, command))
      pre == <<Call("getCommands", NoCommand, 0, allCommands, FALSE)>>
  IN IF /\ Len(phrases) = 1
        /\ Len(phrases[1]) > 0
        /\ (isCommandChar(sign) \/ mode = "cmd" \/ user = NoUser)
       THEN IF Len(matched) = 1
              THEN /\ inputText' = (IF isCommandChar(sign) THEN sign ELSE << >>)
                                     \o matched[1] \o <<" ">>
                   /\ calls' = pre
            ELSE IF Len(matched) > 0
              THEN /\ inputText' = trimSpace(expandPartialMatch(matched, partialCommand, sign))
                   /\ calls' = Append(pre, Call("queueMessage", NoCommand, 0,
                                                <<joinDash(matched)>>, FALSE))
              ELSE /\ calls' = pre
                   /\ inputText' = input
       ELSE /\ calls' = pre
            /\ inputText' = input

RECURSIVE matchFrom(_, _, _, _)
\* the loop of match over the items from index i on; matches is the flag that
\* the loop carries from one item to the next
matchFrom(partial, items, i, matches) ==
  IF i > Len(items) THEN << >>
  ELSE LET name == items[i]
           now == IF Len(partial) = 0
                    THEN matches
                    ELSE \A j \in 0..(Len(partial) - 1) :
                           charAt(partial, j) = charAt(name, j)
       IN (IF now THEN <<name>> ELSE << >>) \o matchFrom(partial, items, i + 1, now)

match(partial, items) == matchFrom(partial, items, 1, FALSE)

\* the partial names handed to match: none, a name, more than a name
MatchPartials == {S_empty, S_a, S_ab, S_b}

\* the names among the items
MatchNames == {S_empty, S_a, S_ab, S_b, S_bb}

\* the lists of at most MaxItems names
ItemLists == UNION {[1..k -> MatchNames] : k \in 0..MaxItems}

MatchEvent(partial, items, matched) ==
  [type |-> "match", partial |-> partial, items |-> items, matched |-> matched]

\* match(partial, items) is called and returns
callMatch(partial, items) ==
  /\ event' = MatchEvent(partial, items, match(partial, items))
  /\ calls' = << >>
  /\ UNCHANGED <<queueVars, commandHelper, commandHistory, previousCommandPointer,
                 keyPressed, inputText, storageVars, soundVars, ctrl>>
  /\ UNCHANGED <<keyHeld, signalValue>>

\* domManipulator.replaceLastInputPhrase(text): text takes the place of the
\* last phrase of the input
replaceLastInputPhrase(input, text) ==
  LET typed == split(input)
  IN join(Append(SubSeq(typed, 1, Len(typed) - 1), text))

\* autoCompleteOption that shows nothing when no key of the next level matches
autoCompleteOption_silent(phrases, options, input) ==
  LET hasOption == Len(phrases) >= 2 /\ phrases[2] \in DOMAIN options.at
      partial == phrases[Len(phrases)]
  IN IF hasOption /\ "next" \in DOMAIN options.at[phrases[2]]
       THEN LET matched == match(partial, options.at[phrases[2]].next.keys)
            IN IF Len(matched) = 1
                 THEN /\ inputText' = replaceLastInputPhrase(input, matched[1] \o <<" ">>)
                      /\ calls' = << >>
               ELSE IF Len(matched) > 0
                 THEN /\ inputText' = input
                      /\ calls' = <<Call("queueMessage", NoCommand, 0,
                                         <<joinDash(matched)>>, FALSE)>>
                 ELSE /\ inputText' = input
                      /\ calls' = << >>
     ELSE IF Len(phrases) <= 2
       THEN LET matched == match(partial, options.keys)
            IN IF Len(matched) = 1
                 THEN /\ inputText' = replaceLastInputPhrase(input, matched[1] \o <<" ">>)
                      /\ calls' = << >>
               ELSE IF Len(matched) > 0
                 THEN /\ inputText' = trimSpace(input)
                      /\ calls' = <<Call("queueMessage", NoCommand, 0,
                                         <<joinDash(matched)>>, FALSE)>>
               ELSE IF partial = << >>
                 THEN /\ inputText' = input
                      /\ calls' = <<Call("queueMessage", NoCommand, 0,
                                         <<joinDash(options.keys)>>, FALSE)>>
                 ELSE /\ inputText' = input
                      /\ calls' = << >>
       ELSE /\ inputText' = input
            /\ calls' = << >>

\* autoCompleteOption(phrases, options), with the text that the input field
\* holds: the option is the one named by the first phrase after the command
\* name, the partial name is the last phrase
autoCompleteOption(phrases, options, input) ==
  LET hasOption == Len(phrases) >= 2 /\ phrases[2] \in DOMAIN options.at
      partial == phrases[Len(phrases)]
  IN IF hasOption /\ "next" \in DOMAIN options.at[phrases[2]]
       THEN LET nextKeys == options.at[phrases[2]].next.keys
                matched == match(partial, nextKeys)
            IN IF Len(matched) = 1
                 THEN /\ inputText' = replaceLastInputPhrase(input, matched[1] \o <<" ">>)
                      /\ calls' = << >>
               ELSE IF Len(matched) > 0
                 THEN /\ inputText' = input
                      /\ calls' = <<Call("queueMessage", NoCommand, 0,
                                         <<joinDash(matched)>>, FALSE)>>
               ELSE IF Len(nextKeys) > 0
                 THEN /\ inputText' = input
                      /\ calls' = <<Call("queueMessage", NoCommand, 0,
                                         <<joinDash(nextKeys)>>, FALSE)>>
                 ELSE /\ inputText' = input
                      /\ calls' = << >>
     ELSE IF Len(phrases) <= 2
       THEN LET firstLevelOptions == options.keys
                matched == match(partial, firstLevelOptions)
            IN IF Len(matched) = 1
                 THEN /\ inputText' = replaceLastInputPhrase(input, matched[1] \o <<" ">>)
                      /\ calls' = << >>
               ELSE IF Len(matched) > 0
                 THEN /\ inputText' = trimSpace(input)
                      /\ calls' = <<Call("queueMessage", NoCommand, 0,
                                         <<joinDash(matched)>>, FALSE)>>
               ELSE IF partial = << >>
                 THEN /\ inputText' = input
                      /\ calls' = <<Call("queueMessage", NoCommand, 0,
                                         <<joinDash(firstLevelOptions)>>, FALSE)>>
                 ELSE /\ inputText' = input
                      /\ calls' = << >>
       ELSE /\ inputText' = input
            /\ calls' = << >>

\* autoComplete(), with the text that the input field holds
autoComplete(input) ==
  LET typed == split(trimSpace(toLowerCase(input)))
      name == toLowerCase(IF commandHelper.command # NoCommand
                            THEN commandHelper.command
                            ELSE typed[1])
      command == hasCommand(name)
      phrases == IF command /\ Len(typed) = 1 THEN Append(typed, << >>) ELSE typed
  IN IF Len(phrases) = 1 /\ Len(phrases[1]) = 0
       THEN /\ commandHelper' \in triggerCommand(S_help, commandHelper)
            /\ calls' = <<Call("triggerCommand", S_help, 0, << >>, FALSE)>>
            /\ inputText' = input
     ELSE IF ~command /\ ~commandHelper.keysBlocked /\ commandHelper.command = NoCommand
       THEN /\ \E allCommands \in getCommands :
                 autoCompleteCommand(phrases, allCommands, input)
            /\ UNCHANGED commandHelper
     ELSE IF command
       THEN /\ IF "autocomplete" \in DOMAIN Registry[name] /\ Len(phrases) < 3
                 THEN /\ calls' = <<Call("matchPartialUser", NoCommand, 0,
                                         <<phrases[2]>>, FALSE)>>
                      /\ inputText' = input
               ELSE IF "options" \in DOMAIN Registry[name]
                 THEN autoCompleteOption(phrases, Registry[name].options, input)
                 ELSE /\ calls' = << >>
                      /\ inputText' = input
            /\ UNCHANGED commandHelper
       ELSE /\ calls' = << >>
            /\ inputText' = input
            /\ UNCHANGED commandHelper

\* specialKeyPress, key code 9: Tab
specialKeyPressTab ==
  /\ IF ~keyPressed
       THEN /\ keyPressed' = TRUE
            /\ autoComplete(inputText)
       ELSE /\ calls' = << >>
            /\ UNCHANGED <<keyPressed, inputText, commandHelper>>
  /\ event' = PlainEvent(IF ~keyPressed THEN "tab" ELSE "keydown")
  /\ UNCHANGED <<queueVars, commandHistory, previousCommandPointer, storageVars, soundVars, ctrl>>
  /\ keyHeld' = TRUE
  /\ UNCHANGED signalValue

\* a key event that reached defaultKeyPress or the key repeat block: triggered
\* tells that triggerAutoComplete removed the last character of the input,
\* defaultPrevented that event.preventDefault() was called, and completed
\* holds the text that autoComplete was called on, if it was called
KeyEvent(type, textChar, triggered, defaultPrevented, completed) ==
  [type |-> type, line |-> textChar, noStepCall |-> FALSE, freezeStep |-> FALSE,
   triggered |-> triggered, defaultPrevented |-> defaultPrevented,
   completed |-> completed]

\* the test of triggerAutoComplete(text, textChar); the only whitespace that
\* the texts hold is the space
triggerAutoComplete(text, textChar) ==
  \/ isAndroid /\ Len(text) >= 2 /\ text[Len(text)] = " " /\ text[Len(text) - 1] = " "
  \/ ~isAndroid /\ Len(text) >= 1 /\ text[Len(text)] = " " /\ textChar = <<" ">>

\* defaultKeyPress that completes whether or not a command is active
defaultKeyPress_anyState(textChar, type, typed) ==
  LET text == inputText
      stripped == SubSeq(text, 1, Len(text) - 1)
  IN IF triggerAutoComplete(text, textChar)
       THEN /\ autoComplete(stripped)
            /\ event' = KeyEvent(type, textChar, TRUE, TRUE, <<stripped>>)
       ELSE /\ inputText' = text \o typed
            /\ calls' = << >>
            /\ event' = KeyEvent(type, textChar, FALSE, FALSE, << >>)
            /\ UNCHANGED commandHelper

\* defaultKeyPress(textChar) for an event of the given type: triggerAutoComplete
\* removes the last character of the input when its test holds; typed is what
\* the browser then adds to the input unless the event's default was prevented
defaultKeyPress(textChar, type, typed) ==
  LET text == inputText
      stripped == SubSeq(text, 1, Len(text) - 1)
  IN IF triggerAutoComplete(text, textChar)
       THEN IF commandHelper.command = NoCommand
              THEN /\ autoComplete(stripped)
                   /\ event' = KeyEvent(type, textChar, TRUE, TRUE, <<stripped>>)
              ELSE /\ inputText' = stripped \o typed
                   /\ calls' = << >>
                   /\ event' = KeyEvent(type, textChar, TRUE, FALSE, << >>)
                   /\ UNCHANGED commandHelper
       ELSE /\ inputText' = text \o typed
            /\ calls' = << >>
            /\ event' = KeyEvent(type, textChar, FALSE, FALSE, << >>)
            /\ UNCHANGED commandHelper

\* the keys that print a character
TypedChars == {<<" ">>, <<"a">>}

\* specialKeyPress, default case: a key that prints the character textChar
specialKeyPressChar(textChar) ==
  /\ Len(inputText) < MaxInput
  /\ IF ~keyPressed
       THEN defaultKeyPress(textChar, "key", textChar)
       ELSE /\ event' = KeyEvent("keydown", textChar, FALSE, TRUE, << >>)
            /\ calls' = << >>
            /\ UNCHANGED <<inputText, commandHelper>>
  /\ UNCHANGED <<queueVars, commandHistory, previousCommandPointer, keyPressed,
                 storageVars, soundVars, ctrl>>
  /\ keyHeld' = TRUE
  /\ UNCHANGED signalValue

\* keyReleased for a key that is not a modifier: the repeat block is lifted;
\* on Android defaultKeyPress runs first, on the last character of the input
keyReleased ==
  /\ keyPressed' = FALSE
  /\ IF isAndroid
       THEN defaultKeyPress(IF inputText = << >> THEN << >>
                            ELSE <<inputText[Len(inputText)]>>, "keyup", << >>)
       ELSE /\ event' = PlainEvent("keyup")
            /\ calls' = << >>
            /\ UNCHANGED <<commandHelper, inputText>>
  /\ UNCHANGED <<queueVars, commandHistory, previousCommandPointer, storageVars, soundVars, ctrl>>
  /\ keyHeld' = FALSE
  /\ UNCHANGED signalValue

\* what the user may have typed before pressing Tab
PartialInputs ==
  {S_empty, S_l, S_L, S_la, S_r, S_wh, S_fo, S_dashFo, S_dashWh, S_dash, S_dashZz,
   S_ls, S_foArg, S_reboot, S_whisper, S_lsSp, S_lsA, S_lsX, S_lsZ, S_lsAB, S_lsAZ,
   S_lsABC, S_lsXZ, S_lsDZ}

\* the user types text into the input field; no autocompletion is triggered
typeInput(text) ==
  /\ inputText' = text
  /\ event' = PlainEvent("type")
  /\ calls' = << >>
  /\ UNCHANGED <<queueVars, commandHelper, commandHistory, previousCommandPointer,
                 keyPressed, storageVars, soundVars, ctrl>>
  /\ UNCHANGED <<keyHeld, signalValue>>

(* ------------------------------- resets -------------------------------- *)
\* resetAllLocalVals that leaves the history pointer where it is
resetAllLocalVals_keepsPointer ==
  /\ commandHistory' = << >>
  /\ user' = NoUser
  /\ accessLevel' = 0
  /\ UNCHANGED previousCommandPointer
  /\ UNCHANGED <<mode, disableCommands, isAndroid>>

\* resetAllLocalVals: the stored history, room and user are removed, the
\* access level falls to 0 and the history pointer to 0
resetAllLocalVals ==
  /\ commandHistory' = << >>
  /\ user' = NoUser
  /\ accessLevel' = 0
  /\ previousCommandPointer' = 0
  /\ UNCHANGED <<mode, disableCommands, isAndroid>>

\* onDisconnectUser()
onDisconnectUser ==
  /\ calls' = (IF user # NoUser
                 THEN <<Call("queueMessage", NoCommand, 0, <<user>>, FALSE)>>
                 ELSE << >>)
  /\ resetAllLocalVals
  /\ event' = PlainEvent("disconnectUser")
  /\ UNCHANGED <<queueVars, commandHelper, keyPressed, inputText, ctrl, soundVars>>
  /\ UNCHANGED <<keyHeld, signalValue>>

\* onBan that also gives up the active command and empties the command queue
onBan_resetsSession ==
  /\ calls' = <<Call("queueMessage", NoCommand, 0, <<<<"youHaveBeenBanned">>>>, FALSE)>>
  /\ resetAllLocalVals
  /\ commandHelper' = IdleHelper
  /\ commandQueue' = << >>
  /\ commmandUsed' = FALSE
  /\ event' = PlainEvent("ban")
  /\ UNCHANGED <<timers, sinceDispatch, enqueued, dispatched, lastTicket, keyPressed,
                 inputText, ctrl, soundVars>>
  /\ UNCHANGED <<keyHeld, signalValue>>

\* onBan()
onBan ==
  /\ calls' = <<Call("queueMessage", NoCommand, 0, <<<<"youHaveBeenBanned">>>>, FALSE)>>
  /\ resetAllLocalVals
  /\ event' = PlainEvent("ban")
  /\ UNCHANGED <<queueVars, commandHelper, keyPressed, inputText, ctrl, soundVars>>
  /\ UNCHANGED <<keyHeld, signalValue>>

\* onLogout()
onLogout ==
  /\ commandHelper' \in triggerCommand(S_clear, commandHelper)
  /\ calls' = <<Call("triggerCommand", S_clear, 0, << >>, FALSE),
                Call("emit", NoCommand, 0, <<<<"followPublic">>>>, FALSE)>>
  /\ resetAllLocalVals
  /\ event' = PlainEvent("logout")
  /\ UNCHANGED <<queueVars, keyPressed, inputText, ctrl, soundVars>>
  /\ UNCHANGED <<keyHeld, signalValue>>

(* ---------------------------- socket signals --------------------------- *)
SignalData == {<<S_a>>}

\* onCommandSuccess that advances the cursor whatever freezeStep says
onCommandSuccess_noFreeze(noStepCall, freezeStep, newData) ==
  /\ ~noStepCall => commandHelper.onStep < MaxStep
  /\ IF ~noStepCall
       THEN LET h == [commandHelper EXCEPT !.onStep = @ + 1]
            IN /\ commandHelper' \in triggerCommandStep(h)
               /\ calls' = <<Call("triggerCommandStep", h.command, h.onStep, newData, FALSE)>>
       ELSE /\ commandHelper' = resetCommand(commandHelper)
            /\ calls' = <<Call("resetCommand", NoCommand, 0, << >>, FALSE)>>
  /\ event' = Event("commandSuccess", << >>, noStepCall, freezeStep)
  /\ UNCHANGED <<queueVars, commandHistory, previousCommandPointer, keyPressed,
                 inputText, storageVars, soundVars, ctrl>>
  /\ UNCHANGED <<keyHeld, signalValue>>

\* onCommandSuccess(params)
onCommandSuccess(noStepCall, freezeStep, newData) ==
  /\ (~noStepCall /\ ~freezeStep) => commandHelper.onStep < MaxStep
  /\ IF ~noStepCall
       THEN LET h == IF ~freezeStep
                       THEN [commandHelper EXCEPT !.onStep = @ + 1]
                       ELSE commandHelper
            IN /\ commandHelper' \in triggerCommandStep(h)
               /\ calls' = <<Call("triggerCommandStep", h.command, h.onStep, newData, FALSE)>>
       ELSE /\ commandHelper' = resetCommand(commandHelper)
            /\ calls' = <<Call("resetCommand", NoCommand, 0, << >>, FALSE)>>
  /\ event' = Event("commandSuccess", << >>, noStepCall, freezeStep)
  /\ UNCHANGED <<queueVars, commandHistory, previousCommandPointer, keyPressed,
                 inputText, storageVars, soundVars, ctrl>>
  /\ UNCHANGED <<keyHeld, signalValue>>

\* onCommandFail that gives up only a session still at its first step
onCommandFail_firstStep ==
  /\ IF commandHelper.command # NoCommand /\ commandHelper.onStep = 0
       THEN /\ commandHelper' = resetCommand(commandHelper)
            /\ calls' = <<Call("abortCommand", commandHelper.command, 0, << >>, FALSE),
                          Call("resetCommand", NoCommand, 0, << >>, TRUE)>>
       ELSE /\ calls' = << >>
            /\ UNCHANGED commandHelper
  /\ event' = PlainEvent("commandFail")
  /\ UNCHANGED <<queueVars, commandHistory, previousCommandPointer, keyPressed,
                 inputText, storageVars, soundVars, ctrl>>
  /\ UNCHANGED <<keyHeld, signalValue>>

\* onCommandFail that aborts and resets without looking for an active command
onCommandFail_unguarded ==
  /\ commandHelper' = resetCommand(commandHelper)
  /\ calls' = <<Call("abortCommand", commandHelper.command, 0, << >>, FALSE),
                Call("resetCommand", NoCommand, 0, << >>, TRUE)>>
  /\ event' = PlainEvent("commandFail")
  /\ UNCHANGED <<queueVars, commandHistory, previousCommandPointer, keyPressed,
                 inputText, storageVars, soundVars, ctrl>>
  /\ UNCHANGED <<keyHeld, signalValue>>

\* onCommandFail()
onCommandFail ==
  /\ IF commandHelper.command # NoCommand
       THEN /\ commandHelper' = resetCommand(commandHelper)
            /\ calls' = <<Call("abortCommand", commandHelper.command, 0, << >>, FALSE),
                          Call("resetCommand", NoCommand, 0, << >>, TRUE)>>
       ELSE /\ calls' = << >>
            /\ UNCHANGED commandHelper
  /\ event' = PlainEvent("commandFail")
  /\ UNCHANGED <<queueVars, commandHistory, previousCommandPointer, keyPressed,
                 inputText, storageVars, soundVars, ctrl>>
  /\ UNCHANGED <<keyHeld, signalValue>>

\* onCommandStep that restarts the command at step 0
onCommandStep_restart(cmdParams) ==
  LET h == [commandHelper EXCEPT !.onStep = 0] IN
  /\ commandHelper' \in triggerCommandStep(h)
  /\ calls' = <<Call("triggerCommandStep", h.command, h.onStep, cmdParams, FALSE)>>
  /\ event' = PlainEvent("commandStep")
  /\ UNCHANGED <<queueVars, commandHistory, previousCommandPointer, keyPressed,
                 inputText, storageVars, soundVars, ctrl>>
  /\ UNCHANGED <<keyHeld, signalValue>>

\* onCommandStep(cmdParams)
onCommandStep(cmdParams) ==
  LET h == [commandHelper EXCEPT !.onStep = commandHelper.fallbackStep] IN
  /\ commandHelper' \in triggerCommandStep(h)
  /\ calls' = <<Call("triggerCommandStep", h.command, h.onStep, cmdParams, FALSE)>>
  /\ event' = PlainEvent("commandStep")
  /\ UNCHANGED <<queueVars, commandHistory, previousCommandPointer, keyPressed,
                 inputText, storageVars, soundVars, ctrl>>
  /\ UNCHANGED <<keyHeld, signalValue>>

\* the handler of the current step completes and lifts the input lock
stepHandlerReturns ==
  /\ commandHelper.command # NoCommand
  /\ commandHelper.keysBlocked
  /\ commandHelper' = [commandHelper EXCEPT !.keysBlocked = FALSE]
  /\ event' = PlainEvent("stepReturn")
  /\ calls' = << >>
  /\ UNCHANGED <<queueVars, commandHistory, previousCommandPointer, keyPressed,
                 inputText, storageVars, soundVars, ctrl>>
  /\ UNCHANGED <<keyHeld, signalValue>>

(* ------------------------------- timers -------------------------------- *)
RECURSIVE MinLeft(_)
MinLeft(ts) ==
  IF Len(ts) = 1 THEN ts[1].left ELSE Min(ts[1].left, MinLeft(Tail(ts)))

\* index of the first timer that is due
FirstDue == CHOOSE i \in 1..Len(timers) :
              /\ timers[i].left = 0
              /\ \A j \in 1..(i - 1) : timers[j].left # 0

RemoveAt(ts, i) == SubSeq(ts, 1, i - 1) \o SubSeq(ts, i + 1, Len(ts))

\* the timer set by consumeCommandQueue fires and runs consumeCommandQueue again
timerConsumeCommandQueue ==
  /\ \E i \in 1..Len(timers) : timers[i].left = 0
  /\ timers[FirstDue].fn = "consumeCommandQueue"
  /\ consumeCommandQueue(commandQueue, RemoveAt(timers, FirstDue), commandHelper, << >>)
  /\ event' = PlainEvent("timer")
  /\ UNCHANGED <<enqueued, commandHistory, previousCommandPointer, keyPressed,
                 inputText, storageVars, soundVars, ctrl>>
  /\ UNCHANGED <<keyHeld, signalValue>>

\* time passes, up to the next timer that falls due
advanceTime ==
  /\ \A i \in 1..Len(timers) : timers[i].left > 0
  /\ LET d == IF timers = << >> THEN TimeQuantum ELSE Min(TimeQuantum, MinLeft(timers)) IN
     /\ timers' = [i \in 1..Len(timers) |-> [timers[i] EXCEPT !.left = @ - d]]
     /\ sinceDispatch' = Min(commandTime, sinceDispatch + d)
  /\ event' = PlainEvent("time")
  /\ calls' = << >>
  /\ UNCHANGED <<commandQueue, commmandUsed, enqueued, dispatched, lastTicket, commandHelper,
                 commandHistory, previousCommandPointer, keyPressed, inputText, storageVars, soundVars, ctrl>>
  /\ UNCHANGED <<keyHeld, signalValue>>

(* -------------------------------- morse -------------------------------- *)
dot == "."
dash == "-"
\* symbolizes space between words in a morse string
morseSeparator == "#"

\* the morse strings that the server sends
MorseCodes ==
  {<<".">>, <<"#">>, <<".", "#">>, <<".", "-", "#">>, <<"x", "-">>}

\* every symbol lasts as long as a separator
duration_uniform(code) == 200

\* the duration that the loop of playMorse gives to a symbol
duration(code) ==
  IF code = dot THEN 50
  ELSE IF code = dash THEN 150
  ELSE IF code = morseSeparator THEN 200
  ELSE 75

\* only the dot sounds
shouldPlay_dotOnly(code) == code = dot

\* shouldPlay in the loop of playMorse: the symbol sounds
shouldPlay(code) == code = dot \/ code = dash

\* setTimeout(setGain, left, value), set for symbol number sym of playback play
GainTimer(left, value, play, sym) ==
  [fn |-> "setGain", left |-> left, value |-> value, play |-> play, sym |-> sym]

RECURSIVE scheduleFrom_onOnly(_, _, _, _)
\* the loop of playMorse without the timer that sets the gain back to 0
scheduleFrom_onOnly(morseCode, i, cursor, play) ==
  IF i > Len(morseCode) THEN << >>
  ELSE LET code == morseCode[i]
       IN (IF shouldPlay(code)
             THEN <<GainTimer(cursor, 1, play, i)>>
             ELSE << >>)
          \o scheduleFrom_onOnly(morseCode, i + 1, cursor + duration(code), play)

RECURSIVE scheduleFrom(_, _, _, _)
\* the loop of playMorse from symbol i on, with soundTimeout at cursor: the
\* timers it sets, in the order of their creation
scheduleFrom(morseCode, i, cursor, play) ==
  IF i > Len(morseCode) THEN << >>
  ELSE LET code == morseCode[i]
       IN (IF shouldPlay(code)
             THEN <<GainTimer(cursor, 1, play, i),
                    GainTimer(cursor + duration(code), 0, play, i)>>
             ELSE << >>)
          \o scheduleFrom(morseCode, i + 1, cursor + duration(code), play)

RECURSIVE totalDuration(_)
\* what the loop of playMorse adds to soundTimeout
totalDuration(morseCode) ==
  IF morseCode = << >> THEN 0
  ELSE duration(Head(morseCode)) + totalDuration(Tail(morseCode))

\* playMorse(morseCode, silent): the cursor starts at 0 when soundQueue is
\* empty; the timers of the gain changes are pushed on soundQueue
playMorse(morseCode, silent) ==
  LET start == IF Len(soundQueue) = 0 THEN 0 ELSE soundTimeout
      gains == scheduleFrom(morseCode, 1, start, plays + 1)
      end == start + totalDuration(morseCode)
  IN /\ soundQueue' = soundQueue \o gains
     /\ soundTimeout' = end
     /\ timers' = timers \o gains
                    \o <<[fn |-> "finishSoundQueue", left |-> end,
                          timeouts |-> 2 * Len(morseCode), morseCode |-> morseCode,
                          silent |-> silent, play |-> plays + 1]>>
     /\ plays' = plays + 1

\* a step of the morse player: the playback it belongs to and, for playMorse
\* and finishSoundQueue, the morse string and the silent flag
MorseEvent(type, play, morseCode, silent) ==
  [type |-> type, line |-> morseCode, noStepCall |-> FALSE, freezeStep |-> FALSE,
   play |-> play, silent |-> silent]

\* onMorse(params)
onMorse(morseCode, silent) ==
  /\ plays < MaxPlays
  /\ playMorse(morseCode, silent)
  /\ event' = MorseEvent("morse", plays + 1, morseCode, silent)
  /\ calls' = << >>
  /\ UNCHANGED <<commandQueue, commmandUsed, sinceDispatch, enqueued, dispatched,
                 lastTicket, commandHelper, commandHistory, previousCommandPointer,
                 keyPressed, inputText, storageVars, ctrl, gain>>
  /\ UNCHANGED <<keyHeld, signalValue>>

\* a timer set by playMorse fires and runs setGain(value)
timerSetGain ==
  /\ \E i \in 1..Len(timers) : timers[i].left = 0
  /\ timers[FirstDue].fn = "setGain"
  /\ gain' = timers[FirstDue].value
  /\ timers' = RemoveAt(timers, FirstDue)
  /\ event' = MorseEvent("gain", timers[FirstDue].play, << >>, FALSE)
  /\ calls' = <<Call("setGain", NoCommand, 0, <<timers[FirstDue].value>>, FALSE)>>
  /\ UNCHANGED <<commandQueue, commmandUsed, sinceDispatch, enqueued, dispatched,
                 lastTicket, commandHelper, commandHistory, previousCommandPointer,
                 keyPressed, inputText, storageVars, ctrl, soundQueue, soundTimeout, plays>>
  /\ UNCHANGED <<keyHeld, signalValue>>

\* String.prototype.replace(/#/g, '')
cleanMorse(morseCode) == SelectSeq(morseCode, LAMBDA code : code # morseSeparator)

\* Array.prototype.splice(0, count)
splice0(queue, count) == SubSeq(queue, Min(count, Len(queue)) + 1, Len(queue))

\* finishSoundQueue that prints the morse string of a silent playback too
finishSoundQueue_loud(timeouts, morseCode, silent) ==
  /\ soundQueue' = splice0(soundQueue, timeouts)
  /\ calls' = <<Call("queueMessage", NoCommand, 0, <<cleanMorse(morseCode)>>, FALSE)>>

\* finishSoundQueue(timeouts) of the playback of morseCode; the message is
\* the morse string after the words "Morse code message received: "
finishSoundQueue(timeouts, morseCode, silent) ==
  /\ soundQueue' = splice0(soundQueue, timeouts)
  /\ calls' = (IF ~silent
                 THEN <<Call("queueMessage", NoCommand, 0, <<cleanMorse(morseCode)>>, FALSE)>>
                 ELSE << >>)

\* the last timer set by playMorse fires and runs finishSoundQueue
timerFinishSoundQueue ==
  /\ \E i \in 1..Len(timers) : timers[i].left = 0
  /\ timers[FirstDue].fn = "finishSoundQueue"
  /\ finishSoundQueue(timers[FirstDue].timeouts, timers[FirstDue].morseCode,
                      timers[FirstDue].silent)
  /\ timers' = RemoveAt(timers, FirstDue)
  /\ event' = MorseEvent("finish", timers[FirstDue].play, timers[FirstDue].morseCode,
                         timers[FirstDue].silent)
  /\ UNCHANGED <<commandQueue, commmandUsed, sinceDispatch, enqueued, dispatched,
                 lastTicket, commandHelper, commandHistory, previousCommandPointer,
                 keyPressed, inputText, storageVars, ctrl, soundTimeout, gain, plays>>
  /\ UNCHANGED <<keyHeld, signalValue>>

(* ---------------------------- window error ----------------------------- *)
\* the error listener that shows nothing
windowError_silent ==
  /\ Len(SelectSeq(timers, LAMBDA t : t.fn = "restart")) < MaxErrors
  /\ calls' = << >>
  /\ timers' = Append(timers, [fn |-> "restart", left |-> restartTime])
  /\ event' = PlainEvent("error")
  /\ UNCHANGED <<commandQueue, commmandUsed, sinceDispatch, enqueued, dispatched,
                 lastTicket, commandHelper, commandHistory, previousCommandPointer,
                 keyPressed, inputText, storageVars, soundVars, ctrl>>
  /\ UNCHANGED <<keyHeld, signalValue>>

\* the listener of the window's error event: the status goes offline, a
\* notice is shown and restart is set to run after restartTime
windowError ==
  /\ Len(SelectSeq(timers, LAMBDA t : t.fn = "restart")) < MaxErrors
  /\ calls' = <<Call("setStatus", NoCommand, 0, <<<<"offline">>>>, FALSE),
                Call("queueMessage", NoCommand, 0, <<<<"rebooting">>>>, FALSE)>>
  /\ timers' = Append(timers, [fn |-> "restart", left |-> restartTime])
  /\ event' = PlainEvent("error")
  /\ UNCHANGED <<commandQueue, commmandUsed, sinceDispatch, enqueued, dispatched,
                 lastTicket, commandHelper, commandHistory, previousCommandPointer,
                 keyPressed, inputText, storageVars, soundVars, ctrl>>
  /\ UNCHANGED <<keyHeld, signalValue>>

\* restart() fires: window.location.reload().  The page is loaded again, the
\* scripts run from their start and onStartup sets the history pointer; what
\* storage holds is kept
timerRestart ==
  /\ \E i \in 1..Len(timers) : timers[i].left = 0
  /\ timers[FirstDue].fn = "restart"
  /\ commandQueue' = << >>
  /\ commmandUsed' = FALSE
  /\ timers' = << >>
  /\ commandHelper' = IdleHelper
  /\ previousCommandPointer' = Len(commandHistory)
  /\ keyPressed' = FALSE
  /\ inputText' = << >>
  /\ ctrl' = FALSE
  /\ soundQueue' = << >>
  /\ soundTimeout' = 0
  /\ gain' = 0
  /\ plays' = 0
  /\ sinceDispatch' = commandTime
  /\ enqueued' = 0
  /\ dispatched' = 0
  /\ lastTicket' = 0
  /\ event' = PlainEvent("reload")
  /\ calls' = << >>
  /\ UNCHANGED <<commandHistory, storageVars>>
  /\ UNCHANGED <<keyHeld, signalValue>>

(* --------------------------- specification ----------------------------- *)
\* what storage holds at startup: a registered user in command mode, a
\* registered user in chat mode, and nobody logged in
Configs ==
  {[user |-> S_user, mode |-> "cmd", accessLevel |-> 1, disableCommands |-> FALSE],
   [user |-> S_user, mode |-> "chat", accessLevel |-> 1, disableCommands |-> FALSE],
   [user |-> NoUser, mode |-> "cmd", accessLevel |-> 0, disableCommands |-> FALSE]}

\* the terminal after construction
ClientInit ==
  /\ commandQueue = << >>
  /\ commmandUsed = FALSE
  /\ timers = << >>
  /\ commandHelper = IdleHelper
  /\ commandHistory = << >>
  /\ previousCommandPointer = 0
  /\ keyPressed = FALSE
  /\ inputText = << >>
  /\ ctrl = FALSE
  /\ isAndroid = FALSE
  /\ soundQueue = << >>
  /\ soundTimeout = 0
  /\ gain = 0
  /\ plays = 0
  /\ \E c \in Configs :
       /\ user = c.user
       /\ mode = c.mode
       /\ accessLevel = c.accessLevel
       /\ disableCommands = c.disableCommands
  /\ sinceDispatch = commandTime
  /\ enqueued = 0
  /\ dispatched = 0
  /\ lastTicket = 0
  /\ event = PlainEvent("init")
  /\ calls = << >>
  /\ keyHeld = FALSE

Init == ClientInit /\ signalValue = signalDefault

Next ==
  \/ \E text \in Lines : specialKeyPressEnter(text)
  \/ \E text \in Lines : clickRunCommand(text)
  \/ keyReleased
  \/ \E noStepCall \in BOOLEAN, freezeStep \in BOOLEAN, newData \in SignalData :
       onCommandSuccess(noStepCall, freezeStep, newData)
  \/ onCommandFail
  \/ \E cmdParams \in SignalData : onCommandStep(cmdParams)
  \/ stepHandlerReturns
  \/ timerConsumeCommandQueue
  \/ advanceTime

Spec == Init /\ [][Next]_vars

\* The terminal with its history: submissions, the arrow and Ctrl keys, the
\* resets sent by the server, the dispatcher and the return of a step handler.
HistoryNext ==
  \/ \E text \in Lines : specialKeyPressEnter(text)
  \/ \E text \in Lines : clickRunCommand(text)
  \/ keyReleased
  \/ specialKeyPressCtrl
  \/ keyReleasedCtrl
  \/ specialKeyPressUp
  \/ specialKeyPressDown
  \/ onDisconnectUser
  \/ onBan
  \/ onLogout
  \/ stepHandlerReturns
  \/ timerConsumeCommandQueue
  \/ advanceTime

HistorySpec == Init /\ [][HistoryNext]_vars

\* what storage holds when the Tab key is tried: also a user of level 2, and
\* nobody logged in after a reset in chat mode
AutoCompleteConfigs ==
  Configs \cup
  {[user |-> S_user, mode |-> "cmd", accessLevel |-> 2, disableCommands |-> FALSE],
   [user |-> NoUser, mode |-> "chat", accessLevel |-> 0, disableCommands |-> FALSE]}

\* The terminal at rest, or with lantern started by a user who may use it
AutoCompleteInit ==
  /\ commandQueue = << >>
  /\ commmandUsed = FALSE
  /\ timers = << >>
  /\ keyPressed = FALSE
  /\ inputText = << >>
  /\ ctrl = FALSE
  /\ isAndroid \in BOOLEAN
  /\ soundQueue = << >>
  /\ soundTimeout = 0
  /\ gain = 0
  /\ plays = 0
  /\ \E c \in AutoCompleteConfigs :
       /\ user = c.user
       /\ mode = c.mode
       /\ accessLevel = c.accessLevel
       /\ disableCommands = c.disableCommands
  /\ sinceDispatch = commandTime
  /\ \/ /\ commandHelper = IdleHelper
        /\ commandHistory = << >>
        /\ previousCommandPointer = 0
        /\ enqueued = 0
        /\ dispatched = 0
        /\ lastTicket = 0
     \/ /\ commandAllowed(S_lantern)
        /\ commandHelper \in triggerCommand(S_lantern, IdleHelper)
        /\ commandHistory = <<S_lantern>>
        /\ previousCommandPointer = 1
        /\ enqueued = 1
        /\ dispatched = 1
        /\ lastTicket = 1
  /\ event = PlainEvent("init")
  /\ calls = << >>
  /\ keyHeld = FALSE
  /\ signalValue = signalDefault

AutoCompleteNext ==
  \/ \E text \in PartialInputs : typeInput(text)
  \/ specialKeyPressTab
  \/ \E textChar \in TypedChars : specialKeyPressChar(textChar)
  \/ keyReleased
  \/ stepHandlerReturns

AutoCompleteSpec == AutoCompleteInit /\ [][AutoCompleteNext]_vars

\* the terminal at rest, a registered user in command mode
ErrorInit == Init /\ user = S_user /\ mode = "cmd"

\* the lines submitted while errors strike: a plain command and a multi-step one
ErrorLines == {S_lsArg, S_lantern}

ErrorNext ==
  \/ \E text \in ErrorLines : specialKeyPressEnter(text)
  \/ keyReleased
  \/ onCommandFail
  \/ stepHandlerReturns
  \/ timerConsumeCommandQueue
  \/ advanceTime
  \/ windowError
  \/ timerRestart

\* errors may strike at any time; timers fire when they are due and time does
\* not stand still
ErrorSpec ==
  /\ ErrorInit
  /\ [][ErrorNext]_vars
  /\ WF_vars(timerConsumeCommandQueue)
  /\ WF_vars(timerRestart)
  /\ WF_vars(advanceTime)

\* what storage holds when lines are submitted: also a registered user whose
\* commands are disabled, in command mode and in chat mode
SubmitConfigs ==
  Configs \cup
  {[user |-> S_user, mode |-> "cmd", accessLevel |-> 1, disableCommands |-> TRUE],
   [user |-> S_user, mode |-> "chat", accessLevel |-> 1, disableCommands |-> TRUE]}

\* the terminal at rest
SubmitInit ==
  /\ commandQueue = << >>
  /\ commmandUsed = FALSE
  /\ timers = << >>
  /\ commandHelper = IdleHelper
  /\ commandHistory = << >>
  /\ previousCommandPointer = 0
  /\ keyPressed = FALSE
  /\ inputText = << >>
  /\ ctrl = FALSE
  /\ isAndroid = FALSE
  /\ soundQueue = << >>
  /\ soundTimeout = 0
  /\ gain = 0
  /\ plays = 0
  /\ \E c \in SubmitConfigs :
       /\ user = c.user
       /\ mode = c.mode
       /\ accessLevel = c.accessLevel
       /\ disableCommands = c.disableCommands
  /\ sinceDispatch = commandTime
  /\ enqueued = 0
  /\ dispatched = 0
  /\ lastTicket = 0
  /\ event = PlainEvent("init")
  /\ calls = << >>
  /\ keyHeld = FALSE
  /\ signalValue = signalDefault

SubmitSpec == SubmitInit /\ [][Next]_vars

\* morse strings arrive while time passes and the timers of playMorse fire
MorseNext ==
  \/ \E morseCode \in MorseCodes, silent \in BOOLEAN : onMorse(morseCode, silent)
  \/ timerSetGain
  \/ timerFinishSoundQueue
  \/ advanceTime

\* the terminal at rest, with a user logged in
MorseInit == Init /\ user = S_user /\ mode = "cmd"

MorseSpec == MorseInit /\ [][MorseNext]_vars

(* --------------------------- station signal ---------------------------- *)
\* Math.abs
abs(n) == IF n < 0 THEN -n ELSE n

\* Math.ceil of hundredths / 100
ceil(hundredths) == -((-hundredths) \div 100)

\* the bounds setNewValue keeps the stored value in
minValue == signalDefault - signalThreshold
maxValue == signalDefault + signalThreshold

\* setNewValue(newSignalValue), the new value in hundredths: the value handed
\* to dbStation.updateSignalValue
setNewValue(newSignalValue) ==
  LET ceilSignalValue == ceil(newSignalValue)
  IN IF ceilSignalValue > maxValue THEN maxValue
     ELSE IF ceilSignalValue < minValue THEN minValue
     ELSE ceilSignalValue

\* the signalChange of updateSignalValue, in hundredths
signalChange(value, boostingSignal) ==
  LET difference == abs(value - signalDefault)
  IN IF boostingSignal /\ value < signalDefault THEN 100 * signalMaxChange
     ELSE IF ~boostingSignal /\ value > signalDefault THEN -(100 * abs(signalMaxChange))
     ELSE (signalThreshold - difference) * changePercentage

\* updateSignalValue(stationId, boostingSignal): nothing is stored when a call of
\* dbStation fails
updateSignalValue(boostingSignal, err) ==
  signalValue' = IF err THEN signalValue
                 ELSE setNewValue(100 * signalValue + signalChange(signalValue, boostingSignal))

StationEvent(choice, err, stored) ==
  [type |-> "manipulateStation", choice |-> choice, err |-> err, stored |-> stored]

\* the choices sent with manipulateStation
Choices == {"1", "2", "3"}

\* socket manipulateStation of an authorized user with the right password:
\* choice 1 amplifies, choice 2 dampens, any other choice is refused
manipulateStation(choice, err) ==
  /\ IF choice = "1" THEN updateSignalValue(TRUE, err)
     ELSE IF choice = "2" THEN updateSignalValue(FALSE, err)
     ELSE UNCHANGED signalValue
  /\ event' = StationEvent(choice, err, signalValue)
  /\ calls' = << >>
  /\ UNCHANGED <<queueVars, commandHelper, commandHistory, previousCommandPointer,
                 keyPressed, inputText, storageVars, soundVars, ctrl, keyHeld>>

\* the station starts with any signal value the server stores
StationInit ==
  /\ ClientInit
  /\ user = S_user
  /\ mode = "cmd"
  /\ signalValue \in minValue..maxValue

StationNext == \E choice \in Choices, err \in BOOLEAN : manipulateStation(choice, err)

StationSpec == StationInit /\ [][StationNext]_vars

\* match is called with every partial name and every list of names
MatchNext == \E partial \in MatchPartials, items \in ItemLists : callMatch(partial, items)

MatchSpec == MorseInit /\ [][MatchNext]_vars

\* timers fire when they are due and time does not stand still
LiveSpec == Spec /\ WF_vars(timerConsumeCommandQueue) /\ WF_vars(advanceTime)

(* ------------------------------ properties ----------------------------- *)
\* the step made a call to the collaborator function fn
Called(fn) == \E i \in 1..Len(calls') : calls'[i].fn = fn

\* the first token of the submitted line is one of the abort tokens
IsAbortLine(text) ==
  LET phrases == split(trimSpace(text)) IN phrases[1] = S_exit \/ phrases[1] = S_abort

\* the dispatcher handed an invocation to the command handler in this step
Dispatches == dispatched' # dispatched

\* C1: the dispatcher hands the enqueued invocations to the command handler in
\* the order of enqueuing: the waiting invocations carry the consecutive tickets
\* after the last one handed over, every drain hands over exactly one
\* invocation, the one with the next ticket, as the last call of the step, and
\* no sooner than commandTime after the previous hand-over.
C1_FifoDispatch ==
  /\ [](/\ Len(commandQueue) = enqueued - dispatched
        /\ \A i \in 1..Len(commandQueue) : commandQueue[i].ticket = dispatched + i)
  /\ [][Dispatches =>
          /\ dispatched' = dispatched + 1
          /\ lastTicket' = dispatched'
          /\ sinceDispatch >= commandTime
          /\ calls' # << >>
          /\ calls'[Len(calls')].fn = "triggerCommand"
          /\ commandQueue # << >> =>
               /\ calls'[Len(calls')].cmd = Head(commandQueue).command
               /\ calls'[Len(calls')].args = Head(commandQueue).data]_vars

\* three invocations were handed over, the last two from the queue by the timer
C1_Witness ==
  /\ dispatched = 3
  /\ lastTicket = 3
  /\ event.type = "timer"
  /\ calls # << >>

\* C2: a line submitted while a command is active and the input is not locked,
\* and that is not an abort line, goes to the step handler of the active command
\* as its tokens, at the current step; no command is triggered, nothing is
\* enqueued or dispatched and the history is not touched.
C2_ActiveBypassesResolution ==
  [][(/\ event'.type = "enter"
      /\ commandHelper.command # NoCommand
      /\ ~commandHelper.keysBlocked
      /\ ~IsAbortLine(event'.line))
     => /\ calls'[Len(calls')] = Call("triggerCommandStep", commandHelper.command,
                                     commandHelper.onStep,
                                     split(trimSpace(event'.line)), FALSE)
        /\ ~Called("triggerCommand")
        /\ ~Called("abortCommand")
        /\ ~Called("resetCommand")
        /\ commandHelper'.command = commandHelper.command
        /\ commandHelper'.onStep = commandHelper.onStep
        /\ UNCHANGED <<queueVars, commandHistory>>]_vars

\* a line naming a registered command was passed to the step handler of lantern
C2_Witness ==
  /\ event.type = "enter"
  /\ event.line = S_lsArg
  /\ calls # << >>
  /\ calls[Len(calls)].fn = "triggerCommandStep"
  /\ calls[Len(calls)].args = <<S_Ls, S_a>>
  /\ commandHelper.command = S_lantern

\* the step ended with one call of the step handler, for command cmd at step
StepHandlerCalledAt(cmd, step) ==
  /\ Len(calls') = 1
  /\ calls'[1].fn = "triggerCommandStep"
  /\ calls'[1].cmd = cmd
  /\ calls'[1].step = step

\* C3: a multi-step command handed over by the dispatcher starts its session at
\* step 0; a commandSuccess signal without freezeStep adds exactly 1 to onStep
\* and calls the step handler at the new step; with freezeStep it leaves onStep
\* as it is and calls the step handler; with noStepCall it resets the session to
\* idle, adds nothing to the cursor and calls no step handler.
C3_StepCursorOnSuccess ==
  [][/\ (Dispatches /\ hasCommand(calls'[Len(calls')].cmd)
           /\ Registry[calls'[Len(calls')].cmd].isMultiStep)
          => /\ commandHelper'.command = calls'[Len(calls')].cmd
             /\ commandHelper'.onStep = 0
     /\ (event'.type = "commandSuccess" /\ ~event'.noStepCall /\ ~event'.freezeStep)
          => /\ commandHelper'.onStep = commandHelper.onStep + 1
             /\ StepHandlerCalledAt(commandHelper.command, commandHelper.onStep + 1)
     /\ (event'.type = "commandSuccess" /\ ~event'.noStepCall /\ event'.freezeStep)
          => /\ commandHelper'.onStep = commandHelper.onStep
             /\ StepHandlerCalledAt(commandHelper.command, commandHelper.onStep)
     /\ (event'.type = "commandSuccess" /\ event'.noStepCall)
          => /\ commandHelper' = IdleHelper
             /\ ~Called("triggerCommandStep")
             /\ calls' = <<Call("resetCommand", NoCommand, 0, << >>, FALSE)>>]_vars

\* a frozen success signal called the handler of lantern again at step 1
C3_Witness ==
  /\ event.type = "commandSuccess"
  /\ event.freezeStep
  /\ ~event.noStepCall
  /\ commandHelper.command = S_lantern
  /\ commandHelper.onStep = 1
  /\ Len(calls) = 1
  /\ calls[1].fn = "triggerCommandStep"
  /\ calls[1].step = 1

\* C4 as claimed: whenever a command is active, whatever keysBlocked is, a
\* submitted abort line aborts the command and resets the session to idle.
C4_AbortAlwaysAvailable ==
  [][(/\ event'.type = "enter"
      /\ commandHelper.command # NoCommand
      /\ IsAbortLine(event'.line))
     => /\ commandHelper' = IdleHelper
        /\ Called("abortCommand")
        /\ Called("resetCommand")]_vars

\* C4 amended: whenever a command is active and the input is not locked, at any
\* step, a submitted abort line aborts the command and resets the session to
\* idle within that run of enterKeyHandler; while the input is locked the line
\* is ignored and the session stays as it is.
C4_AbortWhenUnlocked ==
  [][(/\ event'.type = "enter"
      /\ commandHelper.command # NoCommand
      /\ IsAbortLine(event'.line))
     => IF ~commandHelper.keysBlocked
          THEN /\ commandHelper' = IdleHelper
               /\ calls' = <<Call("abortCommand", commandHelper.command, 0, << >>, FALSE),
                             Call("resetCommand", NoCommand, 0, << >>, TRUE)>>
          ELSE /\ commandHelper' = commandHelper
               /\ calls' = << >>]_vars

\* the line "abort a" aborted lantern
C4_Witness ==
  /\ event.type = "enter"
  /\ event.line = S_abortArg
  /\ Len(calls) = 2
  /\ calls[1].fn = "abortCommand"
  /\ calls[1].cmd = S_lantern
  /\ commandHelper = IdleHelper

\* C5 as claimed: while keysBlocked is true no step begins a call of the step
\* handler, whichever event it handles.
C5_NoStepWhileLocked ==
  [][commandHelper.keysBlocked => ~Called("triggerCommandStep")]_vars

\* C5 amended: while keysBlocked is true no run of enterKeyHandler begins a call
\* of the step handler; a call of the step handler that begins while keysBlocked
\* is true is always made for a commandSuccess or commandStep signal, and
\* keysBlocked holds neither signal back.
C5_OnlySignalsStepWhileLocked ==
  [][commandHelper.keysBlocked
     => /\ Called("triggerCommandStep") => event'.type \in {"commandSuccess", "commandStep"}
        /\ event'.type = "commandStep" => Called("triggerCommandStep")
        /\ (event'.type = "commandSuccess" /\ ~event'.noStepCall)
             => Called("triggerCommandStep")]_vars

\* a line was submitted while lantern had the input locked, and was ignored
C5_Witness ==
  /\ event.type = "enter"
  /\ event.line = S_lsArg
  /\ commandHelper.command = S_lantern
  /\ commandHelper.keysBlocked
  /\ commandHelper.onStep = 1
  /\ calls = << >>

\* C6: while keysBlocked is true a run of enterKeyHandler enqueues nothing,
\* dispatches nothing, sets no timer, leaves the history and the session as
\* they are and calls no collaborator.
C6_EnterIgnoredWhileLocked ==
  [][(event'.type = "enter" /\ commandHelper.keysBlocked)
     => /\ UNCHANGED <<commandQueue, commmandUsed, timers, enqueued, dispatched, lastTicket>>
        /\ UNCHANGED commandHistory
        /\ UNCHANGED commandHelper
        /\ calls' = << >>]_vars

\* an abort line was submitted while the input was locked and the dispatcher idle
C6_Witness ==
  /\ event.type = "enter"
  /\ event.line = S_exit
  /\ commandHelper.keysBlocked
  /\ commandHelper.command # NoCommand
  /\ ~commmandUsed

\* C7: the waiting invocations are always exactly those enqueued and not yet
\* handed over, the hand-overs follow the tickets one by one, and the dispatcher
\* always comes to rest again: the queue is empty, so that every invocation
\* enqueued so far has been handed over, once and in its turn, and the busy flag
\* is cleared.
C7_QueueLiveness ==
  /\ [](/\ Len(commandQueue) = enqueued - dispatched
        /\ lastTicket = dispatched)
  /\ []<>(commandQueue = << >> /\ ~commmandUsed)

\* everything enqueued was handed over and the dispatcher came to rest
C7_Witness ==
  /\ enqueued = MaxEnqueued
  /\ dispatched = MaxEnqueued
  /\ commandQueue = << >>
  /\ ~commmandUsed
  /\ timers = << >>

\* C8: a submission that enqueues while the dispatcher is draining only appends
\* to the queue: nothing is handed over, nothing leaves the queue, no timer is
\* set and the busy flag stays set.
C8_StartWhileBusyNoOp ==
  [][(event'.type = "enter" /\ commmandUsed /\ enqueued' # enqueued)
     => /\ UNCHANGED <<dispatched, lastTicket, timers, commmandUsed, sinceDispatch>>
        /\ Len(commandQueue') = Len(commandQueue) + 1
        /\ SubSeq(commandQueue', 1, Len(commandQueue)) = commandQueue
        /\ \A i \in 1..Len(calls') :
             calls'[i].fn = "triggerCommand" => calls'[i].cmd = S_clear]_vars

\* an invocation was enqueued behind another while the dispatcher was draining
C8_Witness ==
  /\ event.type = "enter"
  /\ commmandUsed
  /\ Len(commandQueue) = 2
  /\ commandQueue[2].ticket = enqueued
  /\ timers # << >>

\* C9: a commandStep signal received while a command is active sets onStep to
\* the fallbackStep of the session, keeps the same command active and calls the
\* step handler at that step.
C9_StepFailureToFallback ==
  [][(event'.type = "commandStep" /\ commandHelper.command # NoCommand)
     => /\ commandHelper'.onStep = commandHelper.fallbackStep
        /\ commandHelper'.command = commandHelper.command
        /\ commandHelper'.fallbackStep = commandHelper.fallbackStep
        /\ StepHandlerCalledAt(commandHelper.command, commandHelper.fallbackStep)]_vars

\* lantern was sent back to its fallback step 1
C9_Witness ==
  /\ event.type = "commandStep"
  /\ commandHelper.command = S_lantern
  /\ commandHelper.onStep = 1
  /\ Len(calls) = 1
  /\ calls[1].fn = "triggerCommandStep"
  /\ calls[1].step = 1

\* C10: a commandFail signal received while a command is active aborts that
\* command and resets the session to idle, at any step.
C10_TerminalFailureResets ==
  [][(event'.type = "commandFail" /\ commandHelper.command # NoCommand)
     => /\ commandHelper' = IdleHelper
        /\ calls' = <<Call("abortCommand", commandHelper.command, 0, << >>, FALSE),
                      Call("resetCommand", NoCommand, 0, << >>, TRUE)>>]_vars

\* a commandFail signal aborted lantern
C10_Witness ==
  /\ event.type = "commandFail"
  /\ Len(calls) = 2
  /\ calls[1].fn = "abortCommand"
  /\ calls[1].cmd = S_lantern
  /\ calls[2].fn = "resetCommand"
  /\ commandHelper = IdleHelper

DispatchesMultiStep ==
  /\ Dispatches
  /\ hasCommand(calls'[Len(calls')].cmd)
  /\ Registry[calls'[Len(calls')].cmd].isMultiStep

\* C12: a session comes into being only in a step of the dispatcher that hands
\* over a multi-step command; resolving and enqueuing a command never creates
\* one, and the hand-over of a command that is not multi-step leaves the
\* session exactly as it is, so that no command is active as long as only such
\* commands are submitted.
C12_NoSessionWithoutMultiStep ==
  [][/\ (commandHelper.command = NoCommand /\ commandHelper'.command # NoCommand)
          => DispatchesMultiStep
     /\ (Dispatches /\ ~DispatchesMultiStep) => commandHelper' = commandHelper]_vars

\* ls was resolved, enqueued and handed over, and no command is active
C12_Witness ==
  /\ event.type = "enter"
  /\ event.line = S_lsArg
  /\ calls # << >>
  /\ calls[Len(calls)].fn = "triggerCommand"
  /\ calls[Len(calls)].cmd = S_ls
  /\ commandHelper.command = NoCommand
  /\ dispatched = 1

NavigationOpen ==
  /\ commandHelper.command = NoCommand
  /\ ~commandHelper.keysBlocked
  /\ ~ctrl

\* C14: with no command active, the keys not blocked and Ctrl not held, an Up
\* key press with the pointer above 0 moves the pointer down by one and puts
\* the entry at the new pointer in the input, and with the pointer at 0 changes
\* neither; a Down key press with the pointer below length - 1 moves it up by
\* one and puts that entry in the input, with the pointer at length - 1 moves
\* it to length and empties the input, and with the pointer at length empties
\* the input and leaves the pointer; neither key changes the log.
C14_HistoryNavigation ==
  [][NavigationOpen
     => /\ event'.type = "up"
             => /\ IF previousCommandPointer > 0
                     THEN /\ previousCommandPointer' = previousCommandPointer - 1
                          /\ inputText' = commandHistory[previousCommandPointer' + 1]
                     ELSE UNCHANGED <<previousCommandPointer, inputText>>
                /\ UNCHANGED commandHistory
        /\ event'.type = "down"
             => /\ IF previousCommandPointer < Len(commandHistory) - 1
                     THEN /\ previousCommandPointer' = previousCommandPointer + 1
                          /\ inputText' = commandHistory[previousCommandPointer' + 1]
                     ELSE /\ previousCommandPointer' = Len(commandHistory)
                          /\ inputText' = << >>
                /\ UNCHANGED commandHistory]_vars

\* two Up key presses went from the end of a log of two lines to its oldest
\* entry, which is now in the input
C14_Witness ==
  /\ event.type = "up"
  /\ Len(commandHistory) = 2
  /\ commandHistory[1] # commandHistory[2]
  /\ previousCommandPointer = 0
  /\ inputText = commandHistory[1]
  /\ commandHelper.command = NoCommand

\* C15: after every run of enterKeyHandler, whichever branch it took, the
\* history pointer equals the length of the history.
C15_PointerResetOnSubmit ==
  [][event'.type = "enter" => previousCommandPointer' = Len(commandHistory')]_vars

\* a line was submitted and ignored while lantern had the keys blocked, and the
\* pointer is at the end of a log of two lines
C15_Witness ==
  /\ event.type = "enter"
  /\ commandHelper.keysBlocked
  /\ calls = << >>
  /\ Len(commandHistory) = 2
  /\ previousCommandPointer = 2

\* C16: the history pointer is never below 0 and never above the length of the
\* history.
C16_PointerInRange ==
  previousCommandPointer \in 0..Len(commandHistory)

\* after a reset in chat mode a new line was stored and Up went back to it
C16_Witness ==
  /\ event.type = "up"
  /\ mode = "chat"
  /\ user = NoUser
  /\ Len(commandHistory) = 1
  /\ previousCommandPointer = 0

\* C17: while a command is active no key-down event of the Up or Down arrow
\* changes the history pointer or the input.
C17_NoNavigationWhileActive ==
  [][(commandHelper.command # NoCommand /\ event'.type \in {"up", "down", "keydown"})
     => UNCHANGED <<previousCommandPointer, inputText>>]_vars

\* Up was pressed while lantern was active with the keys not blocked, Ctrl not
\* held and an older entry to go back to
C17_Witness ==
  /\ event.type = "up"
  /\ commandHelper.command = S_lantern
  /\ ~commandHelper.keysBlocked
  /\ ~ctrl
  /\ previousCommandPointer > 0

\* the tokens of the input when Tab is pressed, in lower case
TabPhrases == split(trimSpace(toLowerCase(inputText)))

\* the command character the user typed in front of the name, if any
TabSign ==
  IF TabPhrases[1] # << >> /\ TabPhrases[1][1] \in commandChars
    THEN <<TabPhrases[1][1]>>
    ELSE << >>

\* the partial command name: the only token, without the command character
TabPartial == SubSeq(TabPhrases[1], Len(TabSign) + 1, Len(TabPhrases[1]))

\* Tab completes a command name in this state: no command is active, the keys
\* are not blocked, the input is one token that is not itself a command, in
\* command mode or after a command character or with nobody logged in, and
\* the partial name is not empty
NameCompletionRuns ==
  /\ commandHelper.command = NoCommand
  /\ ~commandHelper.keysBlocked
  /\ Len(TabPhrases) = 1
  /\ ~hasCommand(TabPhrases[1])
  /\ (TabSign # << >> \/ mode = "cmd" \/ user = NoUser)
  /\ TabPartial # << >>

IsPrefix(p, name) == Len(p) <= Len(name) /\ SubSeq(name, 1, Len(p)) = p

\* the caller's access level reaches the accessLevel of the command, if it has
\* one, and its visibility
MayBeOffered(name) ==
  /\ "accessLevel" \in DOMAIN Registry[name] => accessLevel >= Registry[name].accessLevel
  /\ accessLevel >= Registry[name].visibility

\* the commands that may be offered for the partial name, in the order of allCommands
Candidates(allCommands) ==
  SelectSeq(allCommands, LAMBDA name : IsPrefix(TabPartial, name) /\ MayBeOffered(name))

\* C18: when Tab completes a command name, the commands offered or inserted are
\* exactly those of the command set whose name has the partial name as a
\* literal prefix and that the caller's access level reaches, in accessLevel
\* (if the command has one) and in visibility: with no such command nothing is
\* shown and the input stays, with one its name is inserted, with several
\* exactly these are listed.
C18_MatchesPrefixAndAccess ==
  [][(event'.type = "tab" /\ NameCompletionRuns)
     => /\ calls' # << >>
        /\ calls'[1].fn = "getCommands"
        /\ LET offered == Candidates(calls'[1].args) IN
             /\ Len(offered) = 0 => (Len(calls') = 1 /\ inputText' = inputText)
             /\ Len(offered) = 1
                  => SubSeq(inputText', Len(TabSign) + 1, Len(inputText') - 1) = offered[1]
             /\ Len(offered) > 1
                  => /\ Len(calls') = 2
                     /\ calls'[2].fn = "queueMessage"
                     /\ calls'[2].args = <<joinDash(offered)>>]_vars

\* a user of level 1 pressed Tab on "r": reboot, of level 2, was not offered
C18_Witness ==
  /\ event.type = "tab"
  /\ accessLevel = 1
  /\ mode = "cmd"
  /\ inputText = S_r
  /\ Len(calls) = 1
  /\ calls[1].fn = "getCommands"

\* C19: when exactly one command matches, Tab puts in the input the command
\* character, if the user typed one, the matched name and one space, and shows
\* no list.
C19_SingleMatchReplacesInput ==
  [][(/\ event'.type = "tab"
      /\ NameCompletionRuns
      /\ calls' # << >>
      /\ Len(Candidates(calls'[1].args)) = 1)
     => /\ inputText' = TabSign \o Candidates(calls'[1].args)[1] \o <<" ">>
        /\ \A i \in 1..Len(calls') : calls'[i].fn # "queueMessage"]_vars

\* "wh" was completed to "whisper "
C19_Witness ==
  /\ event.type = "tab"
  /\ inputText = S_whisper \o <<" ">>
  /\ Len(calls) = 1

\* the common extensions of the partial name p in all the names
CommonExtensions(names, p) ==
  {e \in {SubSeq(names[1], Len(p) + 1, k) : k \in Len(p)..Len(names[1])} :
     \A i \in 1..Len(names) : IsPrefix(p \o e, names[i])}

LongestCommonExtension(names, p) ==
  CHOOSE e \in CommonExtensions(names, p) :
    \A f \in CommonExtensions(names, p) : Len(f) <= Len(e)

\* C20: when several commands match, Tab leaves in the input the partial name
\* (after the command character, if one was typed) followed by the longest
\* extension common to all the matches, and lists all the matches.
C20_CommonExtension ==
  [][(/\ event'.type = "tab"
      /\ NameCompletionRuns
      /\ calls' # << >>
      /\ Len(Candidates(calls'[1].args)) > 1)
     => LET matches == Candidates(calls'[1].args) IN
        /\ inputText' = TabSign \o TabPartial \o LongestCommonExtension(matches, TabPartial)
        /\ Len(calls') = 2
        /\ calls'[2].args = <<joinDash(matches)>>]_vars

\* the command whose options Tab completes: the active command, or the one
\* named by the first token of the input
OptionCommand ==
  toLowerCase(IF commandHelper.command # NoCommand
                THEN commandHelper.command
                ELSE TabPhrases[1])

\* the tokens that option completion works on: the command name, the tokens
\* typed after it and, as the last, the partial option name
OptionPhrases ==
  IF Len(TabPhrases) = 1 THEN Append(TabPhrases, << >>) ELSE TabPhrases

OptionPartial == OptionPhrases[Len(OptionPhrases)]

\* Tab completes an option in this state: the command is registered and the
\* completion is not left to a remote lookup
OptionCompletionRuns ==
  /\ hasCommand(OptionCommand)
  /\ ~("autocomplete" \in DOMAIN Registry[OptionCommand] /\ Len(OptionPhrases) < 3)

\* the option tree of the command, empty when the command has none
OptionTree ==
  IF "options" \in DOMAIN Registry[OptionCommand]
    THEN Registry[OptionCommand].options
    ELSE NoKeys

\* the keys of the node reached from the root of the tree by descending one
\* level for every token between the command name and the last token; there
\* are none when a token names no option or an option without a next level
DescendedKeys ==
  LET path == SubSeq(OptionPhrases, 2, Len(OptionPhrases) - 1)
      Walk[i \in 0..Len(path)] ==
        IF i = 0 THEN <<OptionTree>>
        ELSE IF /\ Walk[i - 1] # << >>
                /\ path[i] \in DOMAIN Walk[i - 1][1].at
                /\ "next" \in DOMAIN Walk[i - 1][1].at[path[i]]
          THEN <<Walk[i - 1][1].at[path[i]].next>>
          ELSE << >>
      node == Walk[Len(path)]
  IN IF node = << >> THEN << >> ELSE node[1].keys

\* the keys that the matcher is run on: those of the next level of the option
\* named by the first token after the command name or, when that token names
\* no option with a next level and at most one token follows the command
\* name, those of the first level
MatchedKeys ==
  LET first == OptionPhrases[2]
  IN IF first \in DOMAIN OptionTree.at /\ "next" \in DOMAIN OptionTree.at[first]
       THEN OptionTree.at[first].next.keys
     ELSE IF Len(OptionPhrases) <= 2 THEN OptionTree.keys
     ELSE << >>

PrefixMatches(partial, keys) == SelectSeq(keys, LAMBDA key : IsPrefix(partial, key))

Shows(text) ==
  \E i \in 1..Len(calls') : calls'[i].fn = "queueMessage" /\ calls'[i].args = <<text>>

ShowsNothing == \A i \in 1..Len(calls') : calls'[i].fn # "queueMessage"

\* C21 as stated: when Tab finds no match, for a command name or for an
\* option, with an empty or a missing option tree as well, the input stays as
\* it is and nothing is shown.
C21_ZeroMatchesSilent ==
  [][(/\ event'.type = "tab"
      /\ \/ NameCompletionRuns /\ Candidates(AllCommands) = << >>
         \/ /\ ~NameCompletionRuns
            /\ OptionCompletionRuns
            /\ PrefixMatches(OptionPartial, DescendedKeys) = << >>)
     => inputText' = inputText /\ ShowsNothing]_vars

\* C21, amended: when Tab finds no match the input stays as it is.  For a
\* command name nothing is shown.  For an option, the keys matched are those of
\* the next level of the option named by the first token after the command
\* name, or those of the first level when that token names no option with a
\* next level and at most one token follows the command name; when none of them
\* starts with the last token, all the keys of that next level are shown if it
\* has any, an empty line is shown if the option tree is empty and the last
\* token is empty, and nothing is shown otherwise, a missing option tree
\* included.
C21_ZeroMatchesKeepInput ==
  [][(event'.type = "tab")
     => /\ (NameCompletionRuns /\ Candidates(AllCommands) = << >>)
             => inputText' = inputText /\ ShowsNothing
        /\ (/\ ~NameCompletionRuns
            /\ OptionCompletionRuns
            /\ PrefixMatches(OptionPartial, MatchedKeys) = << >>)
             => /\ inputText' = inputText
                /\ LET first == OptionPhrases[2]
                       descended == /\ first \in DOMAIN OptionTree.at
                                    /\ "next" \in DOMAIN OptionTree.at[first]
                   IN IF descended /\ MatchedKeys # << >>
                        THEN calls' = <<Call("queueMessage", NoCommand, 0,
                                             <<joinDash(MatchedKeys)>>, FALSE)>>
                      ELSE IF /\ "options" \in DOMAIN Registry[OptionCommand]
                              /\ ~descended
                              /\ Len(OptionPhrases) <= 2
                              /\ OptionPartial = << >>
                        THEN calls' = <<Call("queueMessage", NoCommand, 0,
                                             <<S_empty>>, FALSE)>>
                        ELSE calls' = << >>]_vars

\* Tab on "ls a z": no key below a starts with z, b and bb were listed
C21_Witness ==
  /\ event.type = "tab"
  /\ inputText = S_lsAZ
  /\ calls = <<Call("queueMessage", NoCommand, 0, <<joinDash(<<S_b, S_bb>>)>>, FALSE)>>

\* C22: Tab after a command name matches the last token against the keys of
\* the node reached by descending one level of the option tree for every token
\* typed between the command name and the last token, at any depth: one match
\* is put in the place of the last token, several matches are listed.
C22_DescendsPerToken ==
  [][(/\ event'.type = "tab"
      /\ ~NameCompletionRuns
      /\ OptionCompletionRuns
      /\ OptionPartial # << >>)
     => LET matched == PrefixMatches(OptionPartial, DescendedKeys) IN
        /\ Len(matched) = 1
             => inputText' = replaceLastInputPhrase(inputText, matched[1] \o <<" ">>)
        /\ Len(matched) > 1 => Shows(joinDash(matched))]_vars

\* the event was handled by defaultKeyPress: a key that prints a character
\* went down past the key repeat block, or any key went up on Android
DefaultKeyPressRuns == event'.type = "key" \/ (event'.type = "keyup" /\ isAndroid)

\* the auto-completion test of a key event on the input as it was
AutoTrigger == triggerAutoComplete(inputText, event'.line)

\* the input without its last character
Stripped == SubSeq(inputText, 1, Len(inputText) - 1)

\* what the browser adds to the input when the default of the event stands
TypedText == IF event'.type = "key" THEN event'.line ELSE << >>

\* C23 as stated: when a key is handled and the input already ends in
\* whitespace and a space is typed (on Android: the input ends in two
\* whitespace characters), the last character of the input is removed,
\* autocompletion runs on the stripped text and the key event is suppressed;
\* otherwise the handler leaves the input alone and no autocompletion runs.
C23_AutoTrigger ==
  [][DefaultKeyPressRuns
     => IF AutoTrigger
          THEN /\ event'.triggered
               /\ event'.completed = <<Stripped>>
               /\ event'.defaultPrevented
          ELSE /\ event'.completed = << >>
               /\ inputText' = inputText \o TypedText]_vars

\* C23, amended: as stated while no command is active; while a command is
\* active the last character of the input is removed all the same, but no
\* autocompletion runs and the key event is not suppressed, so that the typed
\* character is added to the stripped text.
C23_AutoTriggerWhileIdle ==
  [][DefaultKeyPressRuns
     => IF AutoTrigger
          THEN /\ event'.triggered
               /\ IF commandHelper.command = NoCommand
                    THEN /\ event'.completed = <<Stripped>>
                         /\ event'.defaultPrevented
                         /\ Stripped \in {S_empty, S_l} => calls' # << >>
                         /\ (Stripped = S_wh /\ mode = "cmd" /\ accessLevel >= 1)
                              => inputText' = S_whisper \o <<" ">>
                    ELSE /\ event'.completed = << >>
                         /\ ~event'.defaultPrevented
                         /\ inputText' = Stripped \o TypedText
                         /\ calls' = << >>
          ELSE /\ ~event'.triggered
               /\ event'.completed = << >>
               /\ ~event'.defaultPrevented
               /\ inputText' = inputText \o TypedText
               /\ calls' = << >>]_vars

\* a space was typed after "a " while lantern was active: the input was
\* stripped, nothing was completed and the space was added
C23_Witness ==
  /\ event.type = "key"
  /\ event.line = <<" ">>
  /\ event.triggered
  /\ ~event.defaultPrevented
  /\ commandHelper.command = S_lantern
  /\ inputText = <<"a", " ">>

\* the timers that playMorse has set and that have not fired
SoundTimers == SelectSeq(timers, LAMBDA t : t.fn \in {"setGain", "finishSoundQueue"})

\* the duration of a symbol: 50 ms for a dot, 150 ms for a dash, 200 ms for a
\* separator, 75 ms for any other character
SymbolDuration(code) ==
  IF code = "." THEN 50 ELSE IF code = "-" THEN 150 ELSE IF code = "#" THEN 200 ELSE 75

RECURSIVE Offset(_, _)
\* where the cursor stands before symbol i: the durations of the symbols before it
Offset(morseCode, i) ==
  IF i = 1 THEN 0 ELSE Offset(morseCode, i - 1) + SymbolDuration(morseCode[i - 1])

\* the timers set for symbol i of playback play among ts
TimersOf(ts, play, i) ==
  SelectSeq(ts, LAMBDA t : t.fn = "setGain" /\ t.play = play /\ t.sym = i)

\* the cleanup timers of playback play among ts
CleanupsOf(ts, play) ==
  SelectSeq(ts, LAMBDA t : t.fn = "finishSoundQueue" /\ t.play = play)

\* C24: a playback started while nothing is queued walks the morse string from
\* cursor 0: a dot sets gain 1 at the cursor and gain 0 50 ms later, a dash
\* gain 1 at the cursor and gain 0 150 ms later, a separator and any other
\* character set no gain change; the cursor moves on by the duration of the
\* symbol (200 ms for a separator, 75 ms for another character) in every case,
\* and exactly one cleanup is set, at the final cursor.
C24_SinglePlaybackSchedule ==
  [][(event'.type = "morse" /\ SoundTimers = << >>)
     => LET morseCode == event'.line
            play == event'.play
        IN /\ \A i \in 1..Len(morseCode) :
                LET at == Offset(morseCode, i) IN
                IF morseCode[i] \in {".", "-"}
                  THEN TimersOf(timers', play, i) =
                         <<GainTimer(at, 1, play, i),
                           GainTimer(at + SymbolDuration(morseCode[i]), 0, play, i)>>
                  ELSE TimersOf(timers', play, i) = << >>
           /\ Len(CleanupsOf(timers', play)) = 1
           /\ CleanupsOf(timers', play)[1].left = Offset(morseCode, Len(morseCode) + 1)
           /\ soundTimeout' = Offset(morseCode, Len(morseCode) + 1)]_vars

\* "x-" was played after an earlier playback had come to its end: gain 1 at
\* 75, gain 0 at 225, cleanup at 225
C24_Witness ==
  /\ event.type = "morse"
  /\ event.line = <<"x", "-">>
  /\ event.play = 2
  /\ timers = <<GainTimer(75, 1, 2, 2), GainTimer(225, 0, 2, 2),
                [fn |-> "finishSoundQueue", left |-> 225, timeouts |-> 4,
                 morseCode |-> <<"x", "-">>, silent |-> event.silent, play |-> 2]>>

\* the gain changes of the pulse of symbol sym of playback play that are still
\* to come: when the pulse starts (0 if it has started) and when it ends
PulseStart(play, sym) ==
  LET on == SelectSeq(TimersOf(timers, play, sym), LAMBDA t : t.value = 1)
  IN IF on = << >> THEN 0 ELSE on[1].left

\* C25: a playback requested while an earlier one is still queued has all its
\* events no earlier than the end of the earlier one, and the pulses of
\* different playbacks never overlap.
C25_Concatenate ==
  /\ \A i, j \in 1..Len(SoundTimers) :
       (/\ SoundTimers[i].fn = "finishSoundQueue"
        /\ SoundTimers[i].play < SoundTimers[j].play)
         => SoundTimers[j].left >= SoundTimers[i].left
  /\ \A i, j \in 1..Len(SoundTimers) :
       (/\ SoundTimers[i].fn = "setGain" /\ SoundTimers[i].value = 0
        /\ SoundTimers[j].fn = "setGain" /\ SoundTimers[j].value = 0
        /\ SoundTimers[i].play < SoundTimers[j].play)
         => \/ SoundTimers[i].left <= PulseStart(SoundTimers[j].play, SoundTimers[j].sym)
            \/ SoundTimers[j].left <= PulseStart(SoundTimers[i].play, SoundTimers[i].sym)

\* C26 as stated: ".-#", played while nothing is queued, sets gain 1 at 0 and
\* gain 0 at 50 for the dot, no gain change for the separator and the cleanup
\* at 250; the text shown is ".-".
C26_DotDashSeparatorAt250 ==
  [][/\ (event'.type = "morse" /\ event'.line = <<".", "-", "#">> /\ SoundTimers = << >>)
          => /\ TimersOf(timers', event'.play, 1) =
                  <<GainTimer(0, 1, event'.play, 1), GainTimer(50, 0, event'.play, 1)>>
             /\ TimersOf(timers', event'.play, 3) = << >>
             /\ CleanupsOf(timers', event'.play)[1].left = 250
     /\ (event'.type = "finish" /\ event'.line = <<".", "-", "#">> /\ ~event'.silent)
          => Shows(<<".", "-">>)]_vars

\* C26, amended: ".-#", played while nothing is queued, sets gain 1 at 0 and
\* gain 0 at 50 for the dot, no gain change for the separator and the cleanup
\* at 400; the text shown is ".-".
C26_DotDashSeparatorAt400 ==
  [][/\ (event'.type = "morse" /\ event'.line = <<".", "-", "#">> /\ SoundTimers = << >>)
          => /\ TimersOf(timers', event'.play, 1) =
                  <<GainTimer(0, 1, event'.play, 1), GainTimer(50, 0, event'.play, 1)>>
             /\ TimersOf(timers', event'.play, 3) = << >>
             /\ CleanupsOf(timers', event'.play)[1].left = 400
     /\ (event'.type = "finish" /\ event'.line = <<".", "-", "#">> /\ ~event'.silent)
          => Shows(<<".", "-">>)]_vars

\* the cleanup of ".-#" has fired and ".-" was shown
C26_Witness ==
  /\ event.type = "finish"
  /\ event.line = <<".", "-", "#">>
  /\ event.play = 1
  /\ calls = <<Call("queueMessage", NoCommand, 0, <<<<".", "-">>>>, FALSE)>>
  /\ timers = << >>

SubmittedPhrases == split(trimSpace(event'.line))

\* the first token of the submitted line, in lower case
SubmittedName == toLowerCase(SubmittedPhrases[1])

\* a line with a first token is submitted while no command is active and the
\* input is not locked
SubmitsAtIdle ==
  /\ event'.type = "enter"
  /\ commandHelper.command = NoCommand
  /\ ~commandHelper.keysBlocked
  /\ Len(SubmittedPhrases[1]) > 0

\* the message that tells that the first token is no command that can be run
ShowsCommandFail ==
  calls' = <<Call("queueMessage", NoCommand, 0,
                  <<SubmittedPhrases[1], <<"commandFail">>>>, FALSE)>>

\* C28 as stated: a line submitted at idle whose first token is no registered
\* command shows a failure message and changes neither the command queue nor
\* the session nor the command history.
C28_UnknownCommandNoChange ==
  [][(SubmitsAtIdle /\ ~hasCommand(SubmittedName))
     => /\ Called("queueMessage")
        /\ UNCHANGED <<commandQueue, commmandUsed, timers, commandHelper, commandHistory>>]_vars

\* C28, amended: a line submitted at idle whose first token is no registered
\* command leaves the session as it is.  With a user in command mode it shows a
\* failure message, leaves the command queue alone and is appended to the
\* command history.  With a user in chat mode it shows a failure message and
\* changes neither queue nor history if it starts with a command character,
\* and is queued as a chat message, without failure message and without a
\* change of the history, if it does not.  With nobody logged in it is shown
\* with a notice to register, and neither queue nor history changes.
C28_UnknownCommandKeptInHistory ==
  [][(SubmitsAtIdle /\ ~hasCommand(SubmittedName))
     => /\ UNCHANGED commandHelper
        /\ IF user # NoUser /\ mode = "chat"
             THEN IF SubmittedPhrases[1][1] \in commandChars
                    THEN /\ ShowsCommandFail
                         /\ UNCHANGED <<commandQueue, commmandUsed, timers, commandHistory>>
                    ELSE /\ enqueued' = enqueued + 1
                         /\ \/ /\ commandQueue' = Append(commandQueue,
                                    [command |-> MsgFunc, data |-> SubmittedPhrases,
                                     commandMsg |-> NoMsg, ticket |-> enqueued'])
                               /\ calls' = << >>
                            \/ /\ commandQueue' = commandQueue
                               /\ calls' = <<Call("triggerCommand", MsgFunc, 0,
                                                  SubmittedPhrases, FALSE)>>
                         /\ UNCHANGED commandHistory
           ELSE IF user = NoUser
             THEN /\ Called("queueMessage")
                  /\ UNCHANGED <<commandQueue, commmandUsed, timers, commandHistory>>
             ELSE /\ ShowsCommandFail
                  /\ UNCHANGED <<commandQueue, commmandUsed, timers>>
                  /\ commandHistory' = Append(commandHistory, join(SubmittedPhrases))]_vars

\* a user in command mode submitted "exit" at idle: the failure was shown and
\* the line is in the history
C28_Witness ==
  /\ event.type = "enter"
  /\ event.line = S_exit
  /\ user = S_user
  /\ mode = "cmd"
  /\ commandHelper = IdleHelper
  /\ commandHistory = <<S_exit>>
  /\ calls = <<Call("queueMessage", NoCommand, 0, <<S_exit, <<"commandFail">>>>, FALSE)>>

\* the first token names a registered command that the user may not run: the
\* commands are disabled or the accessLevel of the command is above the
\* user's access level
Denied(name) ==
  /\ hasCommand(name)
  /\ \/ disableCommands
     \/ /\ "accessLevel" \in DOMAIN Registry[name]
        /\ Registry[name].accessLevel > accessLevel

\* the submitted command is neither queued nor handed over under its name
NotRunUnderItsName ==
  /\ \A i \in 1..Len(commandQueue') :
       i > Len(commandQueue) => commandQueue'[i].command # Registry[SubmittedName].commandName
  /\ \A i \in 1..Len(calls') :
       calls'[i].fn = "triggerCommand" => calls'[i].cmd # Registry[SubmittedName].commandName

\* C29 as stated: a line submitted at idle whose first token names a command
\* that the user may not run is reported, the command is not queued under its
\* name and no session starts.
C29_DeniedReported ==
  [][(SubmitsAtIdle /\ Denied(SubmittedName))
     => /\ Called("queueMessage")
        /\ NotRunUnderItsName
        /\ commandHelper'.command = NoCommand]_vars

\* C29, amended: such a line is never queued under the name of the command and
\* never starts a session; it is reported, except when a user in chat mode
\* submits it without a command character: then it is queued as a chat
\* message and nothing is reported.
C29_DeniedNotRun ==
  [][(SubmitsAtIdle /\ Denied(SubmittedName))
     => /\ NotRunUnderItsName
        /\ commandHelper' = commandHelper
        /\ IF user # NoUser /\ mode = "chat" /\ SubmittedPhrases[1][1] \notin commandChars
             THEN /\ ~Called("queueMessage")
                  /\ enqueued' = enqueued + 1
                  /\ \/ commandQueue' # << >>
                          /\ commandQueue'[Len(commandQueue')].command = MsgFunc
                     \/ Called("triggerCommand")
             ELSE /\ Called("queueMessage")
                  /\ UNCHANGED <<commandQueue, commmandUsed, timers, enqueued>>]_vars

\* a user of level 1 submitted "reboot", of level 2, in command mode: the
\* failure was shown and nothing was queued
C29_Witness ==
  /\ event.type = "enter"
  /\ event.line = S_reboot
  /\ user = S_user
  /\ mode = "cmd"
  /\ ~disableCommands
  /\ commandHelper = IdleHelper
  /\ enqueued = 0
  /\ calls = <<Call("queueMessage", NoCommand, 0, <<S_reboot, <<"commandFail">>>>, FALSE)>>

\* C30: a window error shows a notice and sets the restart; when timers fire
\* as they fall due, the error is followed by the reload, which leaves an idle
\* terminal: the command queue empty, the dispatcher not draining, no timer
\* pending, no command active, and the command history as it was.
C30_FaultLeadsToReset ==
  /\ [][event'.type = "error"
          => /\ Called("queueMessage")
             /\ \E i \in 1..Len(timers') : timers'[i].fn = "restart"]_vars
  /\ [][event'.type = "reload"
          => /\ commandQueue' = << >>
             /\ ~commmandUsed'
             /\ timers' = << >>
             /\ commandHelper' = IdleHelper
             /\ commandHistory' = commandHistory]_vars
  /\ (event.type = "error") ~> (event.type = "reload")

\* the terminal was reloaded after lantern had been submitted: it is idle and
\* the line is still in the history
C30_Witness ==
  /\ event.type = "reload"
  /\ commandHistory = <<S_lantern>>
  /\ previousCommandPointer = 1
  /\ commandHelper = IdleHelper
  /\ commandQueue = << >>
  /\ ~commmandUsed

\* the step handled a logout, a ban or a user disconnect
ResetSignal == event'.type \in {"logout", "ban", "disconnectUser"}

\* C31: on logout, ban or user disconnect the session and the dispatcher are
\* at their initial values: no active command, step cursor 0, input unlocked,
\* the command queue empty and the busy flag cleared.
C31_ResetsSessionAndQueue ==
  [][ResetSignal
       => /\ commandHelper'.command = NoCommand
          /\ commandHelper'.onStep = 0
          /\ ~commandHelper'.keysBlocked
          /\ commandQueue' = << >>
          /\ ~commmandUsed']_vars

\* C31 (amended): on logout, ban or user disconnect the stored command
\* history is emptied, the user is removed, the access level falls to 0 and
\* the history pointer to 0; the session, the command queue, the busy flag and
\* the pending drain timer are left as they were.
C31_ResetsStorageOnly ==
  [][ResetSignal
       => /\ commandHistory' = << >>
          /\ user' = NoUser
          /\ accessLevel' = 0
          /\ previousCommandPointer' = 0
          /\ UNCHANGED <<commandHelper, commandQueue, commmandUsed, timers>>]_vars

\* a ban arrived while lantern was active at a locked step, an invocation was
\* waiting and the dispatcher was draining: all of that is still so
C31_Witness ==
  /\ event.type = "ban"
  /\ commandHelper.command = S_lantern
  /\ commandHelper.keysBlocked
  /\ commandQueue # << >>
  /\ commmandUsed
  /\ commandHistory = << >>
  /\ user = NoUser

\* C32: match returns, in the order of the list, exactly the items of which
\* the partial name is a prefix, the empty partial name included.
C32_MatchIsPrefixFilter ==
  event.type = "match"
    => event.matched = PrefixMatches(event.partial, event.items)

\* the gain change that the entry of soundQueue stands for is still to come
GainPending(entry) ==
  \E i \in 1..Len(timers) :
    /\ timers[i].fn = "setGain"
    /\ timers[i].play = entry.play
    /\ timers[i].sym = entry.sym
    /\ timers[i].value = entry.value

\* C33: the cleanup of a playback removes from soundQueue exactly the entries
\* that this playback pushed, all of which have fired, and no entry of a later
\* playback; soundQueue is empty only when no gain change is pending.
C33_CleanupRemovesOwnEntries ==
  /\ [][event'.type = "finish"
          => /\ soundQueue' = SelectSeq(soundQueue, LAMBDA e : e.play # event'.play)
             /\ \A i \in 1..Len(soundQueue) :
                  soundQueue[i].play = event'.play => ~GainPending(soundQueue[i])]_vars
  /\ [](soundQueue = << >> => \A i \in 1..Len(timers) : timers[i].fn # "setGain")

\* the pending timers that will run consumeCommandQueue
DrainTimers(ts) == SelectSeq(ts, LAMBDA t : t.fn = "consumeCommandQueue")

\* C34: at most one drain timer is pending and commmandUsed is true exactly
\* when one is; every hand-over of an invocation is made either by a
\* submission that found the dispatcher at rest or by the one drain timer as it
\* fires, hands over one invocation only and sets the one next drain timer a
\* full commandTime ahead.
C34_SingleDrainChain ==
  /\ [](/\ Len(DrainTimers(timers)) <= 1
        /\ commmandUsed <=> Len(DrainTimers(timers)) = 1)
  /\ [][Dispatches
          => /\ dispatched' = dispatched + 1
             /\ \/ event'.type = "enter" /\ ~commmandUsed /\ DrainTimers(timers) = << >>
                \/ event'.type = "timer" /\ commmandUsed /\ DrainTimers(timers)[1].left = 0
             /\ DrainTimers(timers') = <<[fn |-> "consumeCommandQueue", left |-> commandTime]>>]_vars

\* the drain timer has handed over the second invocation, a third is waiting
\* and the next drain timer is set
C34_Witness ==
  /\ event.type = "timer"
  /\ dispatched = 2
  /\ Len(commandQueue) = 1
  /\ commmandUsed
  /\ DrainTimers(timers) = <<[fn |-> "consumeCommandQueue", left |-> commandTime]>>

\* C35: a commandSuccess or commandStep signal received while no command is
\* active leaves the step cursor as it is and calls no step handler.
C35_LateSignalNoEffect ==
  [][(/\ event'.type \in {"commandSuccess", "commandStep"}
      /\ commandHelper.command = NoCommand)
     => /\ commandHelper'.onStep = commandHelper.onStep
        /\ ~Called("triggerCommandStep")]_vars

\* C36: no invocation is handed over from the command queue to the command
\* handler while a multi-step command is active.
C36_NoDispatchWhileActive ==
  [][Dispatches => commandHelper.command = NoCommand]_vars

\* the step ran the command clear through the command handler
RunsClear ==
  \E i \in 1..Len(calls') : calls'[i].fn = "triggerCommand" /\ calls'[i].cmd = S_clear

\* C37: the clear of a submitted command with clearBeforeUse is run in the
\* step that hands that command over, so that nothing enqueued earlier is
\* handed over in between; a submission calls the command handler only in a
\* step that hands an invocation over.
C37_ClearInTurn ==
  [][event'.type = "enter"
       => /\ RunsClear => (Dispatches /\ lastTicket' = enqueued')
          /\ Called("triggerCommand") => Dispatches]_vars

\* C38: keyPressed is true only between a key going down and the next key
\* coming up: whenever no key is held, after a submission made with the EXEC
\* menu item too, keyPressed is false, so that the next key that goes down is
\* handled and not taken for a repeat.
C38_KeyPressedOnlyWhileHeld ==
  /\ [](keyPressed => keyHeld)
  /\ [][(~keyHeld /\ keyHeld') => event'.type # "keydown"]_vars

\* the timer that fires in this step sets the gain to 1
GainOnFires ==
  /\ event'.type = "gain"
  /\ timers[FirstDue].value = 1

\* C39: when every timer set by playMorse has fired, soundQueue is empty and
\* the gain is 0; when a timer sets the gain to 1, the timer that sets it back
\* to 0 for the same pulse is still pending, and it is not due before time has
\* passed.
C39_AllFiredLeavesSilence ==
  /\ [](SoundTimers = << >> => (soundQueue = << >> /\ gain = 0))
  /\ [][GainOnFires
          => \E i \in 1..Len(timers') :
               /\ timers'[i].fn = "setGain"
               /\ timers'[i].value = 0
               /\ timers'[i].play = timers[FirstDue].play
               /\ timers'[i].sym = timers[FirstDue].sym
               /\ timers'[i].left > 0]_vars

\* three playbacks were requested, the last of them ".-#", and all their
\* timers have fired
C39_Witness ==
  /\ plays = 3
  /\ event.type = "finish"
  /\ event.line = <<".", "-", "#">>
  /\ event.play = 3
  /\ timers = << >>
  /\ soundQueue = << >>
  /\ gain = 0

\* the last step stored a signal value after manipulateStation with choice
Stored(choice) ==
  event'.type = "manipulateStation" /\ event'.choice = choice /\ ~event'.err

\* C40: dampening never stores a signal value above the current one,
\* amplifying never stores one below it, and the stored value lies in
\* minValue..maxValue.
C40_SignalMovesAsAsked ==
  /\ [](signalValue \in minValue..maxValue)
  /\ [][Stored("2") => signalValue' <= signalValue]_vars
  /\ [][Stored("1") => signalValue' >= signalValue]_vars

====
